---- MODULE Spec2Model ----
(***************************************************************************)
(* A model of the combat code of CNRD-PROTOTYPE: the Daemon/Program/Player *)
(* objects (daemon.py, player.py), the text-mode encounter loop            *)
(* Combat.start (combat.py) and the pygame encounter state machine         *)
(* main/handle_combat_turn (game.py).                                      *)
(*                                                                         *)
(* Conventions.                                                            *)
(*  - Python None is the string "None".                                    *)
(*  - A random draw is an existentially chosen value: an accuracy roll     *)
(*    random.randint(1,100) is a member of Rolls, random.random() is a     *)
(*    member of Randoms in thousandths, a variance or random factor is a   *)
(*    percentage.                                                          *)
(*  - Fractions are kept exact as numerator/denominator pairs or as        *)
(*    scaled integers; int() is \div on non-negative values.               *)
(*  - An exception that escapes an operation is recorded in `error`; the   *)
(*    assignments made before the raise are kept.                          *)
(*  - game.py and combat.py read program.program_type and                  *)
(*    daemon.daemon_type; daemon.py stores the same constructor argument   *)
(*    as Program.type and keeps a list Daemon.types (game.py:535 and       *)
(*    game.py:553 treat the two spellings as one field, daemon_type being  *)
(*    the first entry of types).  The model follows that reading.          *)
(***************************************************************************)
EXTENDS Integers, Sequences, FiniteSets, TLC

VARIABLES
    engine,            \* which front end drives the encounter: "Combat", "game" or "objects"
    daemons,           \* Player.daemons, the roster (a sequence of Daemon records)
    opponent,          \* Combat.opponent_daemon / game.enemy_daemon
    player_daemon,     \* Combat.player_daemon, as an index into daemons
    turn,              \* Combat.turn; the number of direct calls made when engine = "objects"
    is_wild,           \* Combat.is_wild
    pc,                \* where Combat.start stands: "constructed", "prompt" (blocked in input()),
                       \* "after_player_turn" (_player_turn returned False), "returned" or "raised"
    outcome,           \* how Combat.start left its loop
    combat_sub_state,  \* game.combat_sub_state
    game_state,        \* game.game_state
    selected_program,  \* player.selected_program: <<>> for None, <<p>> for program p
    error,             \* the exception that escaped, "None" if none did
    decision,          \* the input the last step consumed
    out,               \* what the last step printed / logged / returned, as a sequence of events
    sessions           \* the Combat objects (or the callers of game.py) of a run with several
                       \* encounters at once; <<>> in a run with one

vars == <<engine, daemons, opponent, player_daemon, turn, is_wild, pc, outcome,
          combat_sub_state, game_state, selected_program, error, decision, out, sessions>>

-----------------------------------------------------------------------------
(* Bounds of the model. *)

MaxTurn == 3            \* Combat.start is followed for this many iterations of its loop
MaxWildLevel == 4       \* wild opponents are generated at level 1 and at level MaxWildLevel
MaxChoice == 4          \* the numbers typed at a prompt of Combat are 0..MaxChoice
MaxLevel == 7           \* Daemon.gain_xp is called on daemons below this level
MaxOps == 3             \* direct calls on the objects outside an encounter
MaxHit == 2             \* a wild daemon whose capture chance is computed loses 1..MaxHit HP at a time
MaxBase == 60           \* base stats 0..MaxBase are given to _calculate_stats
MaxStatLevel == 12      \* at levels 1..MaxStatLevel
MaxRoster == 3          \* Player.daemons holds at most this many daemons in a roster run
MaxItems == 2           \* a JSON array given to validate_json_against_schema has 0..MaxItems items

(* Arithmetic helpers. *)

Max(a, b) == IF a >= b THEN a ELSE b

RECURSIVE SeqProduct(_)
SeqProduct(s) == IF s = <<>> THEN 1 ELSE Head(s) * SeqProduct(Tail(s))

RECURSIVE Pow2(_)
Pow2(n) == IF n = 0 THEN 1 ELSE 2 * Pow2(n - 1)

Range(s) == {s[i] : i \in DOMAIN s}

-----------------------------------------------------------------------------
(* daemon.py: the type chart, in halves (1 = 0.5, 2 = 1.0, 4 = 2.0). *)


TYPE_CHART ==
    [VIRUS    |-> [VIRUS |-> 2, FIREWALL |-> 1, CRYPTO |-> 2, TROJAN |-> 2, NEURAL |-> 4, SHELL |-> 1, GHOST |-> 1],
     FIREWALL |-> [VIRUS |-> 4, FIREWALL |-> 1, CRYPTO |-> 1, TROJAN |-> 4, NEURAL |-> 2, SHELL |-> 2, GHOST |-> 2],
     CRYPTO   |-> [VIRUS |-> 2, FIREWALL |-> 4, CRYPTO |-> 1, TROJAN |-> 1, NEURAL |-> 2, SHELL |-> 2, GHOST |-> 4],
     TROJAN   |-> [VIRUS |-> 2, FIREWALL |-> 1, CRYPTO |-> 4, TROJAN |-> 1, NEURAL |-> 4, SHELL |-> 2, GHOST |-> 1],
     NEURAL   |-> [VIRUS |-> 1, FIREWALL |-> 2, CRYPTO |-> 2, TROJAN |-> 1, NEURAL |-> 2, SHELL |-> 4, GHOST |-> 4],
     SHELL    |-> [VIRUS |-> 4, FIREWALL |-> 2, CRYPTO |-> 2, TROJAN |-> 2, NEURAL |-> 1, SHELL |-> 1, GHOST |-> 2],
     GHOST    |-> [VIRUS |-> 4, FIREWALL |-> 2, CRYPTO |-> 1, TROJAN |-> 4, NEURAL |-> 1, SHELL |-> 2, GHOST |-> 2]]

\* TYPE_CHART.get(program type, {}).get(target type, 1.0), in halves
ChartLookup(ptype, ttype) ==
    IF ptype \in DOMAIN TYPE_CHART /\ ttype \in DOMAIN TYPE_CHART[ptype]
    THEN TYPE_CHART[ptype][ttype] ELSE 2

-----------------------------------------------------------------------------
(* daemon.py: class Program. *)

Program(id, name, power, accuracy, program_type, effect) ==
    [id |-> id, name |-> name, power |-> power, accuracy |-> accuracy,
     type |-> program_type, effect |-> effect]

\* the programs the sources construct
DataSiphon1 == Program("1", "Data Siphon", 40, 95, "VIRUS", "damage")            \* daemon.py:192
Infect == Program("2", "Infect", 30, 100, "VIRUS", "special")                    \* daemon.py:193
Firewall == Program("3", "Firewall", 40, 95, "FIREWALL", "damage")               \* daemon.py:206
DefenseProtocol == Program("4", "Defense Protocol", 0, 100, "FIREWALL", "defend")  \* daemon.py:207
WildSiphon == Program("DATA_SIPHON", "Data Siphon", 35, 95, "VIRUS", "damage")   \* game.py:266
Glitch == Program("GLITCH", "Glitch", 20, 80, "BUG", "slow")                     \* game.py:280
StarterSiphon == Program("DATA_SIPHON", "Data Siphon", 40, 95, "VIRUS", "damage")  \* game.py:1144
\* create_player_from_save: a program read back with the effect its save names
SavedBurn == Program("DATA_SIPHON", "Data Siphon", 40, 95, "VIRUS", "burn")       \* game.py:610
EncryptionLock == Program("test_encryption_lock", "Encryption Lock", 30, 100, "CRYPTO", "status:LOCKED")  \* tests/test_combat.py:48

-----------------------------------------------------------------------------
(* daemon.py: class Daemon. *)

\* int(base * (1 + (level - 1) * 0.1)) in IEEE doubles is one short of the exact
\* floor for these arguments (45 * 1.4 = 62.99999999999999); for every other base
\* in 0..129 and level in 1..13 the two agree.
FloatShort(base, level) == level = 5 /\ base \in {45, 85, 90}

\* Daemon._calculate_stats, one stat, with the level's tenths wrapping at ten
StatAt_wrapping(base, level) ==
    ((base * (10 + ((level - 1) % 10))) \div 10) - (IF FloatShort(base, level) THEN 1 ELSE 0)

\* Daemon._calculate_stats, one stat
StatAt(base, level) ==
    ((base * (10 + (level - 1))) \div 10) - (IF FloatShort(base, level) THEN 1 ELSE 0)

\* Daemon._calculate_stats
calculate_stats(d) ==
    [d EXCEPT !.max_hp = StatAt(d.base_hp, d.level),
              !.attack = StatAt(d.base_attack, d.level),
              !.defense = StatAt(d.base_defense, d.level),
              !.speed = StatAt(d.base_speed, d.level),
              !.special = StatAt(d.base_special, d.level)]

\* Daemon._calculate_xp_needed
calculate_xp_needed(d) == 100 + (d.level - 1) * 50

\* Daemon.__init__
Daemon(name, types, level, base, capture_rate, programs) ==
    LET d0 == [name |-> name, types |-> types, level |-> level,
               base_hp |-> base[1], base_attack |-> base[2], base_defense |-> base[3],
               base_speed |-> base[4], base_special |-> base[5],
               capture_rate |-> capture_rate, programs |-> programs,
               max_hp |-> 0, attack |-> 0, defense |-> 0, speed |-> 0, special |-> 0,
               hp |-> 0, xp |-> 0, xp_needed |-> 0, status_effect |-> "None",
               xp_next_level |-> -1]        \* -1: the attribute is not set
        d1 == calculate_stats(d0)
        d2 == [d1 EXCEPT !.hp = d1.max_hp, !.xp = 0]
    IN  [d2 EXCEPT !.xp_needed = calculate_xp_needed(d2)]

\* Daemon.create_from_base
create_from_base(base_id, level) ==
    CASE base_id = "pyrowall" ->
           Daemon("Pyrowall", <<"FIREWALL">>, level, <<45, 45, 65, 45, 50>>, 45,
                  <<Firewall, DefenseProtocol>>)
      [] base_id = "aquabyte" ->
           Daemon("Aquabyte", <<"CRYPTO">>, level, <<45, 50, 50, 50, 55>>, 45,
                  <<Program("5", "Encryption", 40, 95, "CRYPTO", "damage"),
                    Program("6", "Decrypt", 30, 100, "CRYPTO", "special")>>)
      [] OTHER ->
           Daemon("Virulet", <<"VIRUS">>, level, <<45, 55, 40, 60, 50>>, 45,
                  <<DataSiphon1, Infect>>)

\* Daemon.add_program
add_program(d, program) == [d EXCEPT !.programs = Append(@, program)]

\* Daemon.is_fainted
is_fainted(d) == d.hp <= 0

\* Daemon.take_damage without its floor at 0
take_damage_unfloored(d, amount) == [d EXCEPT !.hp = d.hp - amount]

\* Daemon.take_damage
take_damage(d, amount) ==
    LET h == d.hp - amount
    IN  [d EXCEPT !.hp = IF h < 0 THEN 0 ELSE h]

\* Daemon.level_up discarding the XP beyond the threshold
level_up_drops_carry(d) ==
    LET d1 == [d EXCEPT !.xp = 0, !.level = d.level + 1]
        d2 == calculate_stats(d1)
        d3 == [d2 EXCEPT !.xp_needed = calculate_xp_needed(d2)]
    IN  [d3 EXCEPT !.hp = d3.max_hp]

\* Daemon.level_up without the heal
level_up_no_heal(d) ==
    LET d1 == [d EXCEPT !.xp = d.xp - d.xp_needed, !.level = d.level + 1]
        d2 == calculate_stats(d1)
    IN  [d2 EXCEPT !.xp_needed = calculate_xp_needed(d2)]

\* Daemon.level_up
level_up(d) ==
    LET d1 == [d EXCEPT !.xp = d.xp - d.xp_needed, !.level = d.level + 1]
        d2 == calculate_stats(d1)
        d3 == [d2 EXCEPT !.xp_needed = calculate_xp_needed(d2)]
    IN  [d3 EXCEPT !.hp = d3.max_hp]

\* the loop of Daemon.gain_xp as one unconditional level_up
LevelUpRegardless(d) == level_up(d)

\* the loop of Daemon.gain_xp as a single test
LevelUpOnce(d) == IF d.xp >= d.xp_needed THEN level_up(d) ELSE d

\* the loop of Daemon.gain_xp
RECURSIVE LevelUpWhile(_)
LevelUpWhile(d) == IF d.xp >= d.xp_needed THEN LevelUpWhile(level_up(d)) ELSE d

\* Daemon.gain_xp
gain_xp(d, amount) == LevelUpWhile([d EXCEPT !.xp = d.xp + amount])

\* Daemon.calculate_damage, the loop over target.types: type_effectiveness as
\* a fraction (the chart is in halves)
type_effectiveness(program, target) ==
    LET n == Len(target.types)
    IN  [num |-> SeqProduct([i \in 1..n |-> ChartLookup(program.type, target.types[i])]),
         den |-> Pow2(n)]

\* Daemon.calculate_damage; variance is random.uniform(0.85, 1.00) in hundredths.
\* self.attack / target.defense raises ZeroDivisionError when target.defense is 0.
Daemon_calculate_damage(self, program, target, variance) ==
    LET teNum == type_effectiveness(program, target).num
        teDen == type_effectiveness(program, target).den
        stab10 == IF program.type \in Range(self.types) THEN 15 ELSE 10
        num == ((2 * self.level + 10) * program.power * self.attack + 500 * target.defense)
                 * stab10 * teNum * variance
        den == 250 * target.defense * 10 * teDen * 100
    IN  IF target.defense = 0
        THEN [raised |-> "ZeroDivisionError", value |-> 0]
        ELSE [raised |-> "None", value |-> Max(1, num \div den)]

\* Daemon.use_program; roll is random.randint(1, 100).  It returns the result
\* dictionary (has_damage is "damage is not None") and changes neither daemon.
use_program(self, program, target, roll, variance) ==
    LET miss == [hit |-> FALSE, has_damage |-> FALSE, damage |-> 0,
                 effect_applied |-> "None", raised |-> "None"]
    IN  IF program \notin Range(self.programs) THEN miss
        ELSE IF roll > program.accuracy THEN miss
        ELSE IF program.effect = "damage" THEN
            LET dmg == Daemon_calculate_damage(self, program, target, variance)
            IN  IF dmg.raised # "None"
                THEN [miss EXCEPT !.raised = dmg.raised]
                ELSE [miss EXCEPT !.hit = TRUE, !.has_damage = TRUE, !.damage = dmg.value]
        ELSE IF program.effect = "defend" THEN
            [miss EXCEPT !.hit = TRUE, !.effect_applied = "boost_defense"]
        ELSE IF program.effect = "special" THEN
            [miss EXCEPT !.hit = TRUE, !.effect_applied = "lower_attack"]
        ELSE miss      \* unknown effect: result["hit"] = False

-----------------------------------------------------------------------------
(* Random draws and events. *)

Rolls == {1, 100}               \* random.randint(1, 100): the two extremes
Randoms == {0, 999}             \* random.random() in thousandths: the two extremes of [0, 1)
Variances == {85, 100}          \* random.uniform(0.85, 1.00) in hundredths
RandomFactors == {85, 115}      \* random.uniform(0.85, 1.15) in hundredths: the two extremes

\* random.random() < c for a chance c = num/den
Below(r, c) == r * c.den < 1000 * c.num

Ev(e, n) == [ev |-> e, n |-> n]
Events(o) == {o[i].ev : i \in DOMAIN o}

-----------------------------------------------------------------------------
(* combat.py: class Combat.  The operators work on a session record c with one  *)
(* field per variable of the model (see Session below): for Combat.start these  *)
(* are daemons (the player_daemons argument), player_daemon (an index),         *)
(* opponent, is_wild, turn, what the call printed (out), how it left the loop   *)
(* (outcome) and the exception it raised (error).                               *)

\* the list of _player_turn without its is_fainted() filter
other_daemons(c) ==
    SelectSeq([k \in 1..Len(c.daemons) |-> k], LAMBDA k : k # c.player_daemon)

\* the list comprehension of Combat._player_turn, 'S' branch, as roster indices
healthy_daemons(c) ==
    SelectSeq([i \in 1..Len(c.daemons) |-> i],
              LAMBDA i : ~is_fainted(c.daemons[i]) /\ i # c.player_daemon)

\* Combat._calculate_capture_chance with hp_factor fixed at its full-HP value
Combat_calculate_capture_chance_full_hp(opp) ==
    LET bonus10 == IF opp.status_effect = "LOCKED" THEN 20
                   ELSE IF opp.status_effect \in {"CORRUPTED", "FRAGMENTED"} THEN 15
                   ELSE 10
        num == opp.capture_rate * opp.max_hp * bonus10
        den == 255 * (opp.max_hp * 3) * 10
    IN  IF opp.max_hp = 0 THEN [raised |-> "ZeroDivisionError", num |-> 0, den |-> 1]
        ELSE IF num >= den THEN [raised |-> "None", num |-> 1, den |-> 1]
        ELSE [raised |-> "None", num |-> num, den |-> den]

\* Combat._calculate_capture_chance, as a fraction
Combat_calculate_capture_chance(opp) ==
    LET bonus10 == IF opp.status_effect = "LOCKED" THEN 20
                   ELSE IF opp.status_effect \in {"CORRUPTED", "FRAGMENTED"} THEN 15
                   ELSE 10
        num == opp.capture_rate * (opp.max_hp * 3 - opp.hp * 2) * bonus10
        den == 255 * (opp.max_hp * 3) * 10
    IN  IF opp.max_hp = 0 THEN [raised |-> "ZeroDivisionError", num |-> 0, den |-> 1]
        ELSE IF num >= den THEN [raised |-> "None", num |-> 1, den |-> 1]
        ELSE [raised |-> "None", num |-> num, den |-> den]

\* the chance Combat._try_to_run rolls against, as a fraction
try_to_run_chance(pd, opp) ==
    LET num == 9 * pd.speed
        den == 10 * Max(1, opp.speed)
    IN  IF 10 * num < den THEN [num |-> 1, den |-> 10]
        ELSE IF num > den THEN [num |-> 1, den |-> 1]
        ELSE [num |-> num, den |-> den]

\* Combat._try_to_run
try_to_run(pd, opp, r) == Below(r, try_to_run_chance(pd, opp))

\* Combat._handle_victory
handle_victory(pd, opp) ==
    LET d1 == gain_xp(pd, opp.level * 15)
    IN  IF d1.level > pd.level
        THEN LET d2 == calculate_stats(d1) IN [d2 EXCEPT !.hp = d2.max_hp]
        ELSE d1

\* the program index test of Combat._player_turn: prog_choice = int(input) - 1
valid_program_choice(pd, k) == 0 <= k - 1 /\ k - 1 < Len(pd.programs)

\* the daemon index test of Combat._player_turn
valid_daemon_choice(healthy, k) == 0 <= k - 1 /\ k - 1 < Len(healthy)

\* the 'C' branch without its wild-encounter test
capture_allowed_always(c) == TRUE

\* the wild-encounter test of Combat._player_turn, 'C' branch
capture_allowed(c) == c.is_wild

\* Combat._player_turn: a rejected input; valid_choice stays False and the loop
\* prompts again (the continue statements and the fall through of the loop body)
reprompt_turn_taken(c, e) == [c |-> [c EXCEPT !.out = <<Ev(e, 0)>>], ret |-> "False"]

reprompt(c, e) == [c |-> [c EXCEPT !.out = <<Ev(e, 0)>>], ret |-> "again"]

\* Combat._player_turn for one line of input: dec.action is the letter typed,
\* dec.k the number typed after it.  ret is "True" / "False" when the method
\* returns, "again" when its loop prompts again, "raised" when it raises.
Combat_player_turn(c, dec, roll, variance, r) ==
    LET pd == c.daemons[c.player_daemon]
        again(e) == reprompt(c, e)
    IN  CASE dec.action = "F" ->
              IF Len(pd.programs) = 0
              THEN [c |-> [c EXCEPT !.out = <<Ev("no_programs", 0)>>], ret |-> "False"]
              ELSE IF valid_program_choice(pd, dec.k)
              THEN LET res == use_program(pd, pd.programs[dec.k], c.opponent, roll, variance)
                   IN  IF res.raised # "None"
                       THEN [c |-> [c EXCEPT !.error = res.raised, !.out = <<>>], ret |-> "raised"]
                       ELSE IF res.hit
                       THEN [c |-> [c EXCEPT !.out = <<Ev(IF res.has_damage THEN "dealt" ELSE "used",
                                                          res.damage)>>],
                             ret |-> "False"]
                       ELSE [c |-> [c EXCEPT !.out = <<Ev("missed", 0)>>], ret |-> "False"]
              ELSE again("invalid_program")
          [] dec.action = "S" ->
              LET healthy == healthy_daemons(c)
              IN  IF Len(healthy) = 0 THEN again("no_healthy")
                  ELSE IF valid_daemon_choice(healthy, dec.k)
                  THEN [c |-> [c EXCEPT !.player_daemon = healthy[dec.k],
                                        !.out = <<Ev("switched", healthy[dec.k])>>],
                        ret |-> "False"]
                  ELSE again("invalid_daemon")
          [] dec.action = "C" ->
              IF ~capture_allowed(c) THEN again("cannot_capture")
              ELSE LET chance == Combat_calculate_capture_chance(c.opponent)
                   IN  IF chance.raised # "None"
                       THEN [c |-> [c EXCEPT !.error = chance.raised, !.out = <<>>], ret |-> "raised"]
                       ELSE IF Below(r, chance)
                       THEN [c |-> [c EXCEPT !.out = <<Ev("captured", 0)>>, !.outcome = "captured"],
                             ret |-> "True"]
                       ELSE [c |-> [c EXCEPT !.out = <<Ev("capture_failed", 0)>>], ret |-> "False"]
          [] dec.action = "R" ->
              IF try_to_run(pd, c.opponent, r)
              THEN [c |-> [c EXCEPT !.out = <<Ev("got_away", 0)>>, !.outcome = "fled"], ret |-> "True"]
              ELSE [c |-> [c EXCEPT !.out = <<Ev("could_not_escape", 0)>>], ret |-> "False"]
          [] OTHER -> again("invalid_choice")

\* Combat._opponent_turn with an opponent without programs striking for 1 HP
Combat_opponent_turn_struggles(c, oi, roll, variance) ==
    IF Len(c.opponent.programs) = 0
    THEN [c EXCEPT !.daemons[c.player_daemon] = take_damage(@, 1),
                   !.out = @ \o <<Ev("opponent_turn", 0), Ev("opponent_no_programs", 0)>>]
    ELSE LET res == use_program(c.opponent, c.opponent.programs[oi],
                                c.daemons[c.player_daemon], roll, variance)
         IN  IF res.raised # "None"
             THEN [c EXCEPT !.error = res.raised, !.out = @ \o <<Ev("opponent_turn", 0)>>]
             ELSE IF res.hit
             THEN [c EXCEPT !.out = @ \o <<Ev("opponent_turn", 0), Ev("opponent_program", oi),
                                           Ev("opponent_used", res.damage)>>]
             ELSE [c EXCEPT !.out = @ \o <<Ev("opponent_turn", 0), Ev("opponent_program", oi),
                                           Ev("opponent_missed", 0)>>]

\* Combat._opponent_turn: oi is random.choice over the opponent's programs
Combat_opponent_turn(c, oi, roll, variance) ==
    IF Len(c.opponent.programs) = 0
    THEN [c EXCEPT !.out = @ \o <<Ev("opponent_turn", 0), Ev("opponent_no_programs", 0)>>]
    ELSE LET res == use_program(c.opponent, c.opponent.programs[oi],
                                c.daemons[c.player_daemon], roll, variance)
         IN  IF res.raised # "None"
             THEN [c EXCEPT !.error = res.raised, !.out = @ \o <<Ev("opponent_turn", 0)>>]
             ELSE IF res.hit
             THEN [c EXCEPT !.out = @ \o <<Ev("opponent_turn", 0), Ev("opponent_program", oi),
                                           Ev("opponent_used", res.damage)>>]
             ELSE [c EXCEPT !.out = @ \o <<Ev("opponent_turn", 0), Ev("opponent_program", oi),
                                           Ev("opponent_missed", 0)>>]

\* the body of the loop of Combat.start after _player_turn has returned False,
\* up to the next call of _player_turn
Combat_after_player_turn(c, oi, roll, variance) ==
    IF is_fainted(c.opponent)
    THEN [c EXCEPT !.daemons[c.player_daemon] = handle_victory(@, c.opponent),
                   !.out = @ \o <<Ev("gain_xp", c.opponent.level * 15)>>,
                   !.outcome = "victory", !.pc = "returned"]
    ELSE LET c1 == Combat_opponent_turn(c, oi, roll, variance)
         IN  IF c1.error # "None" THEN [c1 EXCEPT !.pc = "raised"]
             ELSE IF is_fainted(c1.daemons[c1.player_daemon])
             THEN [c1 EXCEPT !.out = @ \o <<Ev("all_defeated", 0)>>,
                             !.outcome = "defeat", !.pc = "returned"]
             ELSE [c1 EXCEPT !.turn = @ + 1, !.pc = "prompt"]

\* Combat.start without the break on a true return of _player_turn
Combat_player_turn_returned_no_break(p) ==
    CASE p.ret = "again" -> p.c
      [] p.ret = "raised" -> [p.c EXCEPT !.pc = "raised"]
      [] OTHER -> [p.c EXCEPT !.pc = "after_player_turn"]

\* Combat.start: what the loop does with the value _player_turn returned
Combat_player_turn_returned(p) ==
    CASE p.ret = "again" -> p.c
      [] p.ret = "raised" -> [p.c EXCEPT !.pc = "raised"]
      [] p.ret = "True" -> [p.c EXCEPT !.pc = "returned"]
      [] OTHER -> [p.c EXCEPT !.pc = "after_player_turn"]

-----------------------------------------------------------------------------
(* player.py: class Player. *)

\* Player.get_active_daemon, as a roster index (0 for None)
RECURSIVE FirstHealthyFrom(_, _)
FirstHealthyFrom(ds, i) ==
    IF i > Len(ds) THEN 0
    ELSE IF ~is_fainted(ds[i]) THEN i
    ELSE FirstHealthyFrom(ds, i + 1)

get_active_daemon(ds) == FirstHealthyFrom(ds, 1)

\* Player.add_daemon
add_daemon(ds, d) == Append(ds, d)

\* Player.heal_all_daemons
heal_all_daemons(ds) ==
    [i \in 1..Len(ds) |-> [ds[i] EXCEPT !.hp = ds[i].max_hp, !.status_effect = "None"]]

\* list.remove(x) followed by list.insert(0, x) for the entry at index i
move_to_front(ds, i) == <<ds[i]>> \o SubSeq(ds, 1, i - 1) \o SubSeq(ds, i + 1, Len(ds))

\* Player.set_active_daemon moving the daemon to the back of the list
set_active_daemon_to_back(ds, i) ==
    IF i \in 1..Len(ds) /\ ~is_fainted(ds[i])
    THEN IF i = get_active_daemon(ds) THEN [ret |-> TRUE, daemons |-> ds]
         ELSE [ret |-> TRUE,
               daemons |-> SubSeq(ds, 1, i - 1) \o SubSeq(ds, i + 1, Len(ds)) \o <<ds[i]>>]
    ELSE [ret |-> FALSE, daemons |-> ds]

\* Player.set_active_daemon without its is_fainted() test
set_active_daemon_unchecked(ds, i) ==
    IF i \in 1..Len(ds)
    THEN IF i = get_active_daemon(ds) THEN [ret |-> TRUE, daemons |-> ds]
         ELSE [ret |-> TRUE, daemons |-> move_to_front(ds, i)]
    ELSE [ret |-> FALSE, daemons |-> ds]

\* Player.set_active_daemon(daemon_to_set): i is the roster index of
\* daemon_to_set, 0 for a daemon that is not in the roster
set_active_daemon(ds, i) ==
    IF i \in 1..Len(ds) /\ ~is_fainted(ds[i])
    THEN IF i = get_active_daemon(ds) THEN [ret |-> TRUE, daemons |-> ds]
         ELSE [ret |-> TRUE, daemons |-> move_to_front(ds, i)]
    ELSE [ret |-> FALSE, daemons |-> ds]

-----------------------------------------------------------------------------
(* game.py: the encounter state machine.  In the session record, sub is         *)
(* combat_sub_state and selected_program is <<>> for None, <<p>> for program p. *)

\* game.calculate_damage, the if/elif that sets type_multiplier, in tenths
type_multiplier(program, defender) ==
    LET ptype == program.type
        dtype == defender.types[1]
    IN  IF ptype \in DOMAIN TYPE_CHART /\ dtype \in DOMAIN TYPE_CHART[ptype] THEN 15
        ELSE IF dtype \in DOMAIN TYPE_CHART /\ ptype \in DOMAIN TYPE_CHART[dtype] THEN 5
        ELSE 10

\* game.calculate_damage; rf is random.uniform(0.85, 1.15) in hundredths.
\* log is what it adds to the combat log.
calculate_damage(attacker, defender, program, rf) ==
    LET base_damage == (program.power * (80 + attacker.level * 4)) \div 100
        ptype == program.type
        dtype == defender.types[1]
        super == ptype \in DOMAIN TYPE_CHART /\ dtype \in DOMAIN TYPE_CHART[ptype]
        weak == dtype \in DOMAIN TYPE_CHART /\ ptype \in DOMAIN TYPE_CHART[dtype]
        mult10 == type_multiplier(program, defender)
        log == IF super THEN <<Ev("super_effective", 0)>>
               ELSE IF weak THEN <<Ev("not_very_effective", 0)>> ELSE <<>>
    IN  [value |-> Max(1, (base_damage * mult10 * rf) \div 1000), log |-> log]

\* game.calculate_xp
calculate_xp(defeated_daemon) == 20 + (defeated_daemon.level * 5)

\* game.calculate_capture_chance, as a fraction: 0.3 + 0.4 * hp_factor +
\* 0.2 * level_factor + status_bonus, clamped to [0.1, 0.9]
calculate_capture_chance(wild) ==
    LET lv == 10 + wild.level
        bonus == IF wild.status_effect # "None" THEN 2 ELSE 0
        den == 10 * wild.max_hp * lv
        num == 3 * wild.max_hp * lv + 4 * (wild.max_hp - wild.hp) * lv
                 + 2 * 10 * wild.max_hp + bonus * wild.max_hp * lv
    IN  IF wild.max_hp = 0 THEN [raised |-> "ZeroDivisionError", num |-> 0, den |-> 1]
        ELSE IF 10 * num > 9 * den THEN [raised |-> "None", num |-> 9, den |-> 10]
        ELSE IF 10 * num < den THEN [raised |-> "None", num |-> 1, den |-> 10]
        ELSE [raised |-> "None", num |-> num, den |-> den]

\* the fixed chances of game.py
Chance(percent) == [num |-> percent, den |-> 100]

\* main, the FLEE key: random.random() < 0.7
flee_chance == Chance(70)

\* burn damage of the apply_status_effects branch: max(1, int(max_hp * 0.08))
burn_damage(d) == Max(1, (d.max_hp * 8) \div 100)

\* player_daemon.check_level_up(): class Daemon defines no such method
check_level_up(d) == "AttributeError"

\* an attribute access on player_daemon when get_active_daemon() returned None
NoneError(g) == [g EXCEPT !.error = "AttributeError"]

\* the branch "player_action_execute" with a miss that still grazes the enemy
player_action_execute_miss_grazes(g, pdx, rnd) ==
    LET g1 == [g EXCEPT !.selected_program = <<>>]
        program == g.selected_program[1]
        hit == rnd.roll <= program.accuracy
        dmg == calculate_damage(g.daemons[pdx], g.opponent, program, rnd.rf)
        takes == program.effect # "damage" /\ Below(rnd.ra, Chance(70))
        enemy1 == take_damage(g.opponent, dmg.value)
        enemy2 == IF takes THEN [enemy1 EXCEPT !.status_effect = program.effect] ELSE enemy1
        g2 == IF g.selected_program = <<>> THEN g
              ELSE IF ~hit THEN [g1 EXCEPT !.opponent = take_damage(@, 1),
                                           !.out = @ \o <<Ev("missed", 0)>>]
              ELSE [g1 EXCEPT !.opponent = enemy2,
                              !.out = @ \o dmg.log \o <<Ev("used", 0)>>
                                        \o (IF takes THEN <<Ev("status", 0)>> ELSE <<>>)
                                        \o <<Ev("dealt", dmg.value)>>]
    IN  IF g.selected_program # <<>> /\ hit /\ pdx = 0 THEN NoneError(g1)
        ELSE IF g2.opponent.hp <= 0
        THEN [g2 EXCEPT !.sub = "combat_victory", !.out = @ \o <<Ev("enemy_fainted", 0)>>]
        ELSE [g2 EXCEPT !.sub = "enemy_turn"]

\* handle_combat_turn, branch "player_action_execute"
player_action_execute(g, pdx, rnd) ==
    LET g1 == [g EXCEPT !.selected_program = <<>>]
        program == g.selected_program[1]
        hit == rnd.roll <= program.accuracy
        dmg == calculate_damage(g.daemons[pdx], g.opponent, program, rnd.rf)
        takes == program.effect # "damage" /\ Below(rnd.ra, Chance(70))
        enemy1 == take_damage(g.opponent, dmg.value)
        enemy2 == IF takes THEN [enemy1 EXCEPT !.status_effect = program.effect] ELSE enemy1
        g2 == IF g.selected_program = <<>> THEN g
              ELSE IF ~hit THEN [g1 EXCEPT !.out = @ \o <<Ev("missed", 0)>>]
              ELSE [g1 EXCEPT !.opponent = enemy2,
                              !.out = @ \o dmg.log \o <<Ev("used", 0)>>
                                        \o (IF takes THEN <<Ev("status", 0)>> ELSE <<>>)
                                        \o <<Ev("dealt", dmg.value)>>]
    IN  IF g.selected_program # <<>> /\ hit /\ pdx = 0 THEN NoneError(g1)
        ELSE IF g2.opponent.hp <= 0
        THEN [g2 EXCEPT !.sub = "combat_victory", !.out = @ \o <<Ev("enemy_fainted", 0)>>]
        ELSE [g2 EXCEPT !.sub = "enemy_turn"]

\* the branch "enemy_turn" with a status that takes hold only on a daemon
\* holding none
enemy_turn_keeps_status(g, pdx, rnd) ==
    LET enemy == g.opponent
        program == enemy.programs[rnd.ei]
        skipped == \/ enemy.status_effect = "stun" /\ Below(rnd.rb, Chance(50))
                   \/ enemy.status_effect = "slow" /\ Below(rnd.rb, Chance(30))
        hit == rnd.roll <= program.accuracy
        dmg == calculate_damage(enemy, g.daemons[pdx], program, rnd.rf)
        takes == program.effect # "damage" /\ Below(rnd.rc, Chance(70))
        pd1 == take_damage(g.daemons[pdx], dmg.value)
        pd2 == IF takes /\ pd1.status_effect = "None"
               THEN [pd1 EXCEPT !.status_effect = program.effect] ELSE pd1
        g0 == [g EXCEPT !.out = @ \o <<Ev("opponent_turn", 0)>>]
        g1 == IF skipped THEN [g0 EXCEPT !.out = @ \o <<Ev("could_not_move", 0)>>]
              ELSE IF ~hit THEN [g0 EXCEPT !.out = @ \o <<Ev("opponent_program", rnd.ei),
                                                          Ev("opponent_missed", 0)>>]
              ELSE [g0 EXCEPT !.daemons[pdx] = pd2,
                              !.out = @ \o dmg.log \o <<Ev("opponent_program", rnd.ei),
                                                        Ev("opponent_used", 0)>>
                                        \o (IF takes THEN <<Ev("status", 0)>> ELSE <<>>)
                                        \o <<Ev("took", dmg.value)>>]
    IN  IF Len(enemy.programs) = 0
        THEN [g0 EXCEPT !.out = @ \o <<Ev("opponent_no_programs", 0)>>,
                        !.sub = "apply_status_effects"]
        ELSE IF pdx = 0 THEN NoneError(g0)
        ELSE IF g1.daemons[pdx].hp <= 0
        THEN [g1 EXCEPT !.sub = "combat_defeat", !.out = @ \o <<Ev("fainted", 0)>>]
        ELSE [g1 EXCEPT !.sub = "apply_status_effects"]

\* handle_combat_turn, branch "enemy_turn"
enemy_turn(g, pdx, rnd) ==
    LET enemy == g.opponent
        program == enemy.programs[rnd.ei]
        skipped == \/ enemy.status_effect = "stun" /\ Below(rnd.rb, Chance(50))
                   \/ enemy.status_effect = "slow" /\ Below(rnd.rb, Chance(30))
        hit == rnd.roll <= program.accuracy
        dmg == calculate_damage(enemy, g.daemons[pdx], program, rnd.rf)
        takes == program.effect # "damage" /\ Below(rnd.rc, Chance(70))
        pd1 == take_damage(g.daemons[pdx], dmg.value)
        pd2 == IF takes THEN [pd1 EXCEPT !.status_effect = program.effect] ELSE pd1
        g0 == [g EXCEPT !.out = @ \o <<Ev("opponent_turn", 0)>>]
        g1 == IF skipped THEN [g0 EXCEPT !.out = @ \o <<Ev("could_not_move", 0)>>]
              ELSE IF ~hit THEN [g0 EXCEPT !.out = @ \o <<Ev("opponent_program", rnd.ei),
                                                          Ev("opponent_missed", 0)>>]
              ELSE [g0 EXCEPT !.daemons[pdx] = pd2,
                              !.out = @ \o dmg.log \o <<Ev("opponent_program", rnd.ei),
                                                        Ev("opponent_used", 0)>>
                                        \o (IF takes THEN <<Ev("status", 0)>> ELSE <<>>)
                                        \o <<Ev("took", dmg.value)>>]
    IN  IF Len(enemy.programs) = 0
        THEN [g0 EXCEPT !.out = @ \o <<Ev("opponent_no_programs", 0)>>,
                        !.sub = "apply_status_effects"]
        ELSE IF pdx = 0 THEN NoneError(g0)
        ELSE IF g1.daemons[pdx].hp <= 0
        THEN [g1 EXCEPT !.sub = "combat_defeat", !.out = @ \o <<Ev("fainted", 0)>>]
        ELSE [g1 EXCEPT !.sub = "apply_status_effects"]

\* handle_combat_turn, branch "apply_status_effects"
apply_status_effects(g, pdx, rnd) ==
    LET pd == g.daemons[pdx]
        pburn == pd.status_effect = "burn"
        eburn == g.opponent.status_effect = "burn"
        pd1 == IF pburn THEN take_damage(pd, burn_damage(pd)) ELSE pd
        e1 == IF eburn THEN take_damage(g.opponent, burn_damage(g.opponent)) ELSE g.opponent
        g1 == [g EXCEPT !.daemons[pdx] = pd1, !.opponent = e1,
                        !.out = @ \o (IF pburn THEN <<Ev("burn", burn_damage(pd))>> ELSE <<>>)
                                  \o (IF eburn THEN <<Ev("enemy_burn", burn_damage(g.opponent))>> ELSE <<>>)]
        precover == pd1.status_effect # "None" /\ Below(rnd.ra, Chance(20))
        erecover == e1.status_effect # "None" /\ Below(rnd.rb, Chance(20))
    IN  IF pdx = 0 THEN NoneError(g)
        ELSE IF pd1.hp <= 0
        THEN [g1 EXCEPT !.sub = "combat_defeat", !.out = @ \o <<Ev("fainted", 0)>>]
        ELSE IF e1.hp <= 0
        THEN [g1 EXCEPT !.sub = "combat_victory", !.out = @ \o <<Ev("enemy_fainted", 0)>>]
        ELSE [g1 EXCEPT !.daemons[pdx].status_effect = IF precover THEN "None" ELSE @,
                        !.opponent.status_effect = IF erecover THEN "None" ELSE @,
                        !.sub = "player_choose_action"]

\* handle_combat_turn, branch "combat_victory"
combat_victory(g, pdx) ==
    LET xp_gained == calculate_xp(g.opponent)
        g1 == [g EXCEPT !.daemons[pdx] = gain_xp(@, xp_gained),
                        !.out = @ \o <<Ev("gain_xp", xp_gained)>>]
    IN  IF pdx = 0 THEN NoneError(g)
        ELSE IF check_level_up(g1.daemons[pdx]) = "AttributeError"
        THEN [g1 EXCEPT !.error = "AttributeError"]
        ELSE [g1 EXCEPT !.sub = "combat_end"]

\* the branch "combat_capture_attempt" handing the turn back to the player
\* after a failed attempt
combat_capture_attempt_skips_enemy(g, rnd) ==
    LET chance == calculate_capture_chance(g.opponent)
    IN  IF chance.raised # "None" THEN [g EXCEPT !.error = chance.raised]
        ELSE IF Below(rnd.ra, chance)
        THEN [g EXCEPT !.daemons = add_daemon(@, g.opponent),
                       !.out = @ \o <<Ev("captured", 0)>>,
                       !.sub = "combat_end"]
        ELSE [g EXCEPT !.out = @ \o <<Ev("broke_free", 0)>>, !.sub = "player_choose_action"]

\* handle_combat_turn, branch "combat_capture_attempt"
combat_capture_attempt(g, rnd) ==
    LET chance == calculate_capture_chance(g.opponent)
    IN  IF chance.raised # "None" THEN [g EXCEPT !.error = chance.raised]
        ELSE IF Below(rnd.ra, chance)
        THEN [g EXCEPT !.daemons = add_daemon(@, g.opponent),
                       !.out = @ \o <<Ev("captured", 0)>>,
                       !.sub = "combat_end"]
        ELSE [g EXCEPT !.out = @ \o <<Ev("broke_free", 0)>>, !.sub = "enemy_turn"]

\* handle_combat_turn(player, player_daemon, enemy); pdx is player_daemon
handle_combat_turn(g, pdx, rnd) ==
    CASE g.sub = "combat_start" -> [g EXCEPT !.sub = "player_choose_action"]
      [] g.sub = "player_action_execute" -> player_action_execute(g, pdx, rnd)
      [] g.sub = "enemy_turn" -> enemy_turn(g, pdx, rnd)
      [] g.sub = "apply_status_effects" -> apply_status_effects(g, pdx, rnd)
      [] g.sub = "combat_victory" -> combat_victory(g, pdx)
      [] g.sub = "combat_defeat" ->
            [g EXCEPT !.out = @ \o <<Ev("lost", 0)>>, !.sub = "combat_end"]
      [] g.sub = "combat_fled" ->
            [g EXCEPT !.out = @ \o <<Ev("got_away", 0)>>, !.sub = "combat_end"]
      [] g.sub = "combat_capture_attempt" -> combat_capture_attempt(g, rnd)
      [] OTHER -> g       \* "combat_end": pass; any other value: no branch

\* main: the KEYDOWN branch for game_state == "combat", before the call of
\* handle_combat_turn
combat_key(g, key, rnd) ==
    LET active == get_active_daemon(g.daemons)
        n == IF key = "K1" THEN 1 ELSE IF key = "K2" THEN 2
             ELSE IF key = "K3" THEN 3 ELSE IF key = "K4" THEN 4 ELSE 0
    IN  CASE g.sub = "player_choose_action" ->
              (CASE key = "K1" -> [g EXCEPT !.sub = "player_choose_program"]
                 [] key = "K2" -> [g EXCEPT !.out = @ \o <<Ev("no_items", 0)>>]
                 [] key = "K3" -> [g EXCEPT !.sub = "combat_capture_attempt"]
                 [] key = "K4" ->
                      IF Below(rnd.rd, flee_chance)
                      THEN [g EXCEPT !.sub = "combat_fled", !.out = @ \o <<Ev("got_away", 0)>>]
                      ELSE [g EXCEPT !.sub = "enemy_turn",
                                     !.out = @ \o <<Ev("could_not_escape", 0)>>]
                 [] OTHER -> g)
          [] g.sub = "player_choose_program" ->
              IF n > 0 /\ active = 0 THEN NoneError(g)
              ELSE IF n > 0 /\ Len(g.daemons[active].programs) >= n
              THEN [g EXCEPT !.selected_program = <<g.daemons[active].programs[n]>>,
                             !.sub = "player_action_execute"]
              ELSE IF key = "ESC" THEN [g EXCEPT !.sub = "player_choose_action"]
              ELSE g
          [] g.sub \in {"combat_victory", "combat_defeat", "combat_fled", "combat_end"} ->
              IF key = "RETURN" THEN [g EXCEPT !.game_state = "roaming"] ELSE g
          [] OTHER -> g

\* main: one KEYDOWN event while game_state == "combat"
on_keydown(g, key, rnd) ==
    LET g1 == combat_key([g EXCEPT !.out = <<>>], key, rnd)
    IN  IF g1.error # "None" THEN g1
        ELSE handle_combat_turn(g1, get_active_daemon(g1.daemons), rnd)

-----------------------------------------------------------------------------
(* daemon.py: saving and loading. *)

\* the dictionary of an empty save entry, as the data.get defaults read it
EmptyDict ==
    [name |-> "Unknown", types |-> <<"NORMAL">>, level |-> 1, programs |-> <<>>,
     hp |-> 10, max_hp |-> 10, attack |-> 5, defense |-> 5, speed |-> 5,
     xp |-> 0, xp_next_level |-> 100, status_effect |-> "None"]

\* a save entry holding the fields of d; a key whose attribute d lacks is
\* missing from the entry, and reading it gives the data.get default
DictOf(d) ==
    [name |-> d.name, types |-> d.types, level |-> d.level, programs |-> d.programs,
     hp |-> d.hp, max_hp |-> d.max_hp, attack |-> d.attack, defense |-> d.defense,
     speed |-> d.speed, xp |-> d.xp,
     xp_next_level |-> IF d.xp_next_level = -1 THEN EmptyDict.xp_next_level
                       ELSE d.xp_next_level,
     status_effect |-> d.status_effect]

\* Daemon.to_dict: self.xp_next_level is read, an attribute __init__ does not
\* set (it sets xp_needed); Program.to_dict of daemon.py copies every field
to_dict(d) ==
    IF d.xp_next_level = -1 THEN [raised |-> "AttributeError", data |-> <<>>]
    ELSE [raised |-> "None", data |-> <<DictOf(d)>>]

\* "from program import Program", the first statement of Daemon.from_dict:
\* program.py begins with an indented def and defines no class
import_program == "IndentationError"

\* Daemon.from_dict: daemon is <<>> when it raised, <<d>> when it returned d
from_dict(data) ==
    LET d0 == Daemon(data.name, data.types, data.level, <<0, 0, 0, 0, 0>>, 100,
                     data.programs)
        d1 == [d0 EXCEPT !.hp = data.hp, !.max_hp = data.max_hp, !.attack = data.attack,
                         !.defense = data.defense, !.speed = data.speed, !.xp = data.xp,
                         !.xp_next_level = data.xp_next_level,
                         !.status_effect = data.status_effect]
    IN  IF import_program # "None" THEN [raised |-> import_program, daemon |-> <<>>]
        ELSE [raised |-> "None", daemon |-> <<d1>>]

-----------------------------------------------------------------------------
(* The state machine. *)

Session ==
    [daemons |-> daemons, opponent |-> opponent, player_daemon |-> player_daemon,
     turn |-> turn, is_wild |-> is_wild, pc |-> pc, outcome |-> outcome,
     sub |-> combat_sub_state, game_state |-> game_state,
     selected_program |-> selected_program, error |-> error, out |-> <<>>]

Install(s) ==
    /\ daemons' = s.daemons
    /\ opponent' = s.opponent
    /\ player_daemon' = s.player_daemon
    /\ turn' = s.turn
    /\ is_wild' = s.is_wild
    /\ pc' = s.pc
    /\ outcome' = s.outcome
    /\ combat_sub_state' = s.sub
    /\ game_state' = s.game_state
    /\ selected_program' = s.selected_program
    /\ error' = s.error
    /\ out' = s.out
    /\ engine' = engine
    /\ sessions' = sessions

\* an input: the action asked for, the number given with it, and (for a direct
\* call) the roster index of the daemon it is made on
DecOn(a, k, i) == [action |-> a, k |-> k, i |-> i]
Dec(a, k) == DecOn(a, k, 0)

\* main: the starter daemon
Starter == add_program(create_from_base("virulet", 5), StarterSiphon)

\* initialize_combat: a wild daemon
Wild(base_id, level) ==
    LET d == add_program(create_from_base(base_id, level), WildSiphon)
    IN  IF level > 3 THEN add_program(d, Glitch) ELSE d

Wilds == { Wild("virulet", 1), Wild("aquabyte", MaxWildLevel) }

\* a second roster member: a wild daemon captured earlier
Reserve == Wild("aquabyte", 3)

\* tests/test_combat.py, test_capture_mechanics: a daemon that knows no program
wild_daemon(capture_rate, status_effect) ==
    [Daemon("Wild Test Daemon", <<"NEURAL">>, 10, <<30, 12, 12, 12, 12>>, capture_rate, <<>>)
        EXCEPT !.status_effect = status_effect]

\* the rosters a session begins with: the starter alone or with the reserve,
\* with the hit points and experience earlier encounters left, or with a
\* status loaded from a save
Rosters ==
    { <<[Starter EXCEPT !.xp = Starter.xp_needed - 30]>>,
      <<[Starter EXCEPT !.hp = 5, !.status_effect = "burn"]>>,
      <<[Starter EXCEPT !.hp = 2, !.status_effect = "CORRUPTED"]>>,
      <<add_program([Starter EXCEPT !.hp = 5, !.status_effect = "burn"], SavedBurn)>>,
      <<[Starter EXCEPT !.hp = 1], Reserve>>,
      <<[Starter EXCEPT !.hp = 0], Reserve>>,
      <<[Starter EXCEPT !.hp = 1], [Reserve EXCEPT !.hp = 0]>>,
      <<[Starter EXCEPT !.hp = 0]>>,
      <<wild_daemon(100, "None")>> }

\* tests/test_combat.py, setUp: the daemon that knows a status program
TestCrypto ==
    Daemon("Test Crypto", <<"CRYPTO">>, 10, <<35, 10, 12, 15, 18>>, 100, <<EncryptionLock>>)

\* Daemon(name, types, level) with the constructor's default base stats
DefaultDaemon == Daemon("Unknown", <<"NORMAL">>, 1, <<0, 0, 0, 0, 0>>, 100, <<>>)

Engines == {"Combat", "game", "objects"}

Init ==
    /\ engine \in Engines
    /\ daemons \in IF engine = "objects" THEN Rosters \cup {<<TestCrypto>>} ELSE Rosters
    /\ turn = 0
    /\ outcome = "None"
    /\ selected_program = <<>>
    /\ error = "None"
    /\ decision = Dec("none", 0)
    /\ out = <<>>
    /\ sessions = <<>>
    /\ IF engine = "Combat"
       THEN \* Combat(player_daemon, opponent_daemon), any two daemons
            /\ opponent \in Wilds \cup { [w EXCEPT !.hp = h] : w \in Wilds, h \in {0, 1} }
                             \cup {wild_daemon(100, "None")}
            /\ player_daemon \in 1..Len(daemons)
            /\ is_wild \in BOOLEAN
            /\ pc = "constructed"
            /\ combat_sub_state = "None" /\ game_state = "None"
       ELSE /\ opponent \in IF engine = "objects"
                           THEN Wilds \cup { [w EXCEPT !.hp = 1] : w \in Wilds } \cup {DefaultDaemon}
                           ELSE Wilds \cup {wild_daemon(100, "None")}
            /\ player_daemon = 0 /\ is_wild = TRUE /\ pc = "None"
            /\ IF engine = "game"
               THEN \* after initialize_combat, with a daemon able to fight
                    /\ get_active_daemon(daemons) # 0
                    /\ combat_sub_state = "player_choose_action"
                    /\ game_state = "combat"
               ELSE combat_sub_state = "None" /\ game_state = "None"

\* the draws an operation does not make are fixed
Pin(S, needed) == IF needed THEN S ELSE {CHOOSE x \in S : TRUE}

\* Combat.start up to the first prompt
CombatStart ==
    /\ engine = "Combat" /\ pc = "constructed"
    /\ Install([Session EXCEPT !.turn = 1, !.pc = "prompt"])
    /\ decision' = Dec("start", 0)

\* Combat.start: one line of input at the prompt of _player_turn
CombatInput ==
    /\ engine = "Combat" /\ pc = "prompt" /\ turn <= MaxTurn
    /\ \E a \in {"F", "S", "C", "R", "X"} :
       \E k \in Pin(0..MaxChoice, a \in {"F", "S"}) :
       \E roll \in Pin(Rolls, a = "F"), variance \in Pin(Variances, a = "F") :
       \E r \in Pin(Randoms, a \in {"C", "R"}) :
          /\ Install(Combat_player_turn_returned(
                        Combat_player_turn(Session, Dec(a, k), roll, variance, r)))
          /\ decision' = Dec(a, k)

\* Combat.start: the rest of the loop body once _player_turn has returned False
CombatRound ==
    /\ engine = "Combat" /\ pc = "after_player_turn"
    /\ \E oi \in 1..Max(1, Len(opponent.programs)) :
       \E roll \in Rolls, variance \in Variances :
          Install(Combat_after_player_turn(Session, oi, roll, variance))
    /\ decision' = decision

Keys == {"K1", "K2", "K3", "K4", "ESC", "RETURN", "other"}

\* the handler branches a KEYDOWN event runs through
Attacks(key) == combat_sub_state = "player_choose_program" /\ key \in {"K1", "K2", "K3", "K4"}
Flees(key) == combat_sub_state = "player_choose_action" /\ key = "K4"
EnemyActs(key) == combat_sub_state = "enemy_turn" \/ Flees(key)
StatusTick == combat_sub_state = "apply_status_effects"
Captures(key) == combat_sub_state = "player_choose_action" /\ key = "K3"

\* main: a KEYDOWN event while game_state == "combat"
KeyDown ==
    /\ engine = "game" /\ game_state = "combat" /\ error = "None"
    /\ \E key \in Keys :
       \E roll \in Pin(Rolls, Attacks(key) \/ EnemyActs(key)) :
       \E rf \in Pin(RandomFactors, Attacks(key) \/ EnemyActs(key)) :
       \E ra \in Pin(Randoms, Attacks(key) \/ StatusTick \/ Captures(key)) :
       \E rb \in Pin(Randoms, StatusTick
                              \/ (EnemyActs(key) /\ opponent.status_effect \in {"stun", "slow"})) :
       \E rc \in Pin(Randoms, EnemyActs(key)) :
       \E rd \in Pin(Randoms, Flees(key)) :
       \E ei \in Pin(1..Max(1, Len(opponent.programs)), EnemyActs(key)) :
          /\ Install(on_keydown(Session, key,
                                [roll |-> roll, rf |-> rf, ra |-> ra, rb |-> rb,
                                 rc |-> rc, rd |-> rd, ei |-> ei]))
          /\ decision' = Dec(key, 0)

\* Direct calls on the objects, as the tests and the roaming code make them.
\* A target index 0 is the opponent.
Combatant(i) == IF i = 0 THEN opponent ELSE daemons[i]

SetCombatant(i, d) ==
    /\ daemons' = IF i = 0 THEN daemons ELSE [daemons EXCEPT ![i] = d]
    /\ opponent' = IF i = 0 THEN d ELSE opponent

ObjFrame(dec, events) ==
    /\ engine = "objects" /\ turn < MaxOps
    /\ turn' = turn + 1
    /\ decision' = dec
    /\ out' = events
    /\ UNCHANGED <<engine, player_daemon, is_wild, pc, outcome, combat_sub_state, sessions,
                   game_state, selected_program, error>>

DamageAmounts == {30, 1000}
XpAmounts == {20, 700}

\* Daemon.take_damage(amount)
ObjTakeDamage ==
    \E i \in 0..Len(daemons), amount \in DamageAmounts :
        /\ SetCombatant(i, take_damage(Combatant(i), amount))
        /\ ObjFrame(DecOn("take_damage", amount, i), <<>>)

\* Daemon.gain_xp(amount)
ObjGainXp ==
    \E i \in 1..Len(daemons), amount \in XpAmounts :
        /\ daemons[i].level < MaxLevel
        /\ SetCombatant(i, gain_xp(daemons[i], amount))
        /\ ObjFrame(DecOn("gain_xp", amount, i), <<>>)

\* Player.heal_all_daemons()
ObjHealAll ==
    /\ daemons' = heal_all_daemons(daemons)
    /\ opponent' = opponent
    /\ ObjFrame(Dec("heal_all_daemons", 0), <<>>)

\* Daemon.from_dict(data) for a roster member's save entry; the daemon it
\* returns replaces the member
ObjFromDict ==
    \E i \in 1..Len(daemons) : \E data \in {DictOf(daemons[i]), EmptyDict} :
        LET res == from_dict(data)
        IN  /\ IF res.raised # "None" THEN UNCHANGED <<daemons, opponent>>
               ELSE SetCombatant(i, res.daemon[1])
            /\ ObjFrame(DecOn("from_dict", 0, i),
                        <<Ev(IF res.raised # "None" THEN "raised" ELSE "loaded", 0)>>)

\* daemon.to_dict() on a roster member
ObjToDict ==
    \E i \in 1..Len(daemons) :
        /\ UNCHANGED <<daemons, opponent>>
        /\ ObjFrame(DecOn("to_dict", 0, i),
                    <<Ev(IF to_dict(daemons[i]).raised # "None" THEN "raised" ELSE "saved", 0)>>)

\* attacker.use_program(program, target): a roster member on the opponent or on
\* another roster member
ObjUseProgram ==
    \E i \in 1..Len(daemons) : \E k \in 1..Len(daemons[i].programs) :
    \E t \in (0..Len(daemons)) \ {i} :
    \E roll \in Rolls, variance \in Variances :
        LET res == use_program(daemons[i], daemons[i].programs[k], Combatant(t), roll, variance)
        IN  /\ UNCHANGED <<daemons, opponent>>
            /\ ObjFrame(DecOn("use_program", k, i),
                        <<Ev(IF res.raised # "None" THEN "raised"
                             ELSE IF ~res.hit THEN "missed"
                             ELSE IF res.has_damage THEN "dealt" ELSE "used",
                             res.damage)>>)

Next ==
    \/ CombatStart \/ CombatInput \/ CombatRound
    \/ KeyDown
    \/ ObjTakeDamage \/ ObjGainXp \/ ObjHealAll \/ ObjFromDict \/ ObjToDict
    \/ ObjUseProgram

Spec == Init /\ [][Next]_vars

-----------------------------------------------------------------------------
(* Properties. *)

\* main (game.py:1312) treats these sub-states as the end of the encounter;
\* Combat.start has ended when it has returned
TerminalPhase ==
    \/ engine = "Combat" /\ pc = "returned"
    \/ engine = "game" /\ combat_sub_state \in {"combat_victory", "combat_defeat",
                                                "combat_fled", "combat_end"}

InvalidInput(d) ==
    \/ /\ engine = "Combat" /\ pc = "prompt"
       /\ \/ /\ d.action = "F"
             /\ Len(daemons[player_daemon].programs) > 0
             /\ (d.k < 1 \/ d.k > Len(daemons[player_daemon].programs))
          \/ d.action = "S" /\ (d.k < 1 \/ d.k > Len(healthy_daemons(Session)))
          \/ d.action = "C" /\ ~is_wild
          \/ d.action = "X"
    \/ /\ engine = "game" /\ game_state = "combat" /\ error = "None"
       /\ \/ /\ combat_sub_state = "player_choose_program"
             /\ \/ d.action \in {"RETURN", "other"}
                \/ \E n \in 1..4 :
                     /\ d.action = <<"K1", "K2", "K3", "K4">>[n]
                     /\ n > Len(daemons[get_active_daemon(daemons)].programs)
          \/ combat_sub_state = "player_choose_action"
             /\ d.action \in {"ESC", "RETURN", "other"}

C3_NoCaptureUnlessWild ==
    ~is_wild =>
        /\ outcome # "captured"
        /\ Events(out) \cap {"captured", "capture_failed", "broke_free"} = {}
        /\ combat_sub_state # "combat_capture_attempt"

C3_Witness ==
    /\ ~is_wild /\ pc = "prompt"
    /\ decision.action = "C"
    /\ Events(out) = {"cannot_capture"}

\* C4: every combatant has 0 <= hp <= max_hp in every reachable state.
C4_HpWithinBounds ==
    \A d \in Range(daemons) \cup {opponent} : 0 <= d.hp /\ d.hp <= d.max_hp

C4_Witness ==
    /\ engine = "objects"
    /\ decision.action = "take_damage" /\ decision.k = 1000
    /\ Combatant(decision.i).hp = 0
    /\ \E d \in Range(daemons) : d.level > Starter.level /\ d.hp = d.max_hp /\ d.hp > 0

\* C5: when a Fight with a damage program registers a hit, the damage is at
\* least 1 and the target's HP afterwards is max(0, hp_before - damage).
C5_HitSubtractsDamage ==
    [][\A j \in DOMAIN out' :
          out'[j].ev = "dealt" =>
              /\ out'[j].n >= 1
              /\ opponent'.hp = Max(0, opponent.hp - out'[j].n)]_vars

\* C6: a status program (effect status:X) of accuracy 100 always reports a
\* hit.
C6_StatusProgramHits ==
    (engine = "objects" /\ decision.action = "use_program") =>
        LET program == daemons[decision.i].programs[decision.k]
        IN  (program.effect = "status:LOCKED" /\ program.accuracy = 100) =>
                "missed" \notin Events(out)

\* C7: the session is in Defeat only if no roster member is left standing.
C7_DefeatOnlyWhenNoneLeft ==
    (\/ engine = "game" /\ combat_sub_state = "combat_defeat"
     \/ engine = "Combat" /\ outcome = "defeat")
        => \A d \in Range(daemons) : is_fainted(d)

\* C8: the XP awarded to the player's combatant on Victory is exactly
\* opponent.level * 15.
C8_VictoryXp ==
    [][\A j \in DOMAIN out' :
          out'[j].ev = "gain_xp" => out'[j].n = opponent.level * 15]_vars

\* C9: a successful Flee ends the session at once, without an action of the
\* opponent; after a failed Flee the session has not ended and the opponent
\* (if it can act) acts: in the same key event in game.py, as the next step of
\* the loop in Combat.start.
C9_Flee ==
    [][LET o == Events(out')
       IN  /\ "got_away" \in o =>
                /\ "opponent_turn" \notin o
                /\ IF engine = "Combat" THEN pc' = "returned" /\ outcome' = "fled"
                   ELSE combat_sub_state' = "combat_end"
           /\ "could_not_escape" \in o =>
                IF engine = "Combat" THEN pc' = "after_player_turn" /\ outcome' = "None"
                ELSE /\ "opponent_turn" \in o
                     /\ combat_sub_state' \notin {"combat_fled", "combat_end"}
           /\ (/\ engine = "Combat" /\ pc = "after_player_turn"
               /\ "could_not_escape" \in Events(out)
               /\ ~is_fainted(opponent)) => "opponent_turn" \in o]_vars

C9_Witness ==
    /\ engine = "Combat" /\ decision.action = "R"
    /\ pc = "prompt" /\ turn = 2
    /\ "opponent_turn" \in Events(out)

\* C10: a successful Capture ends the session without an action of the
\* opponent; after a failed Capture the session has not ended and the opponent
\* (if it can act) acts next.
C10_Capture ==
    [][LET o == Events(out')
       IN  /\ "captured" \in o =>
                /\ "opponent_turn" \notin o
                /\ IF engine = "Combat" THEN pc' = "returned" /\ outcome' = "captured"
                   ELSE combat_sub_state' = "combat_end"
           /\ "capture_failed" \in o => pc' = "after_player_turn" /\ outcome' = "None"
           /\ "broke_free" \in o => combat_sub_state' = "enemy_turn"
           /\ (/\ engine = "Combat" /\ pc = "after_player_turn"
               /\ "capture_failed" \in Events(out)
               /\ ~is_fainted(opponent)) => "opponent_turn" \in o
           /\ (engine = "game" /\ combat_sub_state = "enemy_turn") =>
                "opponent_turn" \in o]_vars

C10_Witness ==
    /\ engine = "Combat" /\ decision.action = "C"
    /\ pc = "prompt" /\ turn = 2
    /\ {"opponent_used", "opponent_missed"} \cap Events(out) # {}

\* C11: on a successful capture the opponent is added to the player's roster
\* exactly once; on a failed capture the roster is unchanged.
C11_CaptureAddsToRoster ==
    [][LET o == Events(out')
       IN  /\ "captured" \in o =>
                /\ Len(daemons') = Len(daemons) + 1
                /\ daemons' = Append(daemons, opponent)
           /\ ({"capture_failed", "broke_free"} \cap o # {}) => daemons' = daemons]_vars

\* C12: a session is not started on a roster without a non-fainted combatant:
\* no session stands at its first prompt with every roster member fainted.
C12_NoSessionWithoutFighter ==
    (engine = "Combat" /\ pc = "prompt" /\ turn = 1 /\ error = "None")
        => \E d \in Range(daemons) : ~is_fainted(d)

\* the XP the level-ups from level l1 up to level l2 consume: the thresholds
\* 100 + (l - 1) * 50 of the levels l1 .. l2 - 1
RECURSIVE XpConsumed(_, _)
XpConsumed(l1, l2) ==
    IF l1 >= l2 THEN 0 ELSE (100 + (l1 - 1) * 50) + XpConsumed(l1 + 1, l2)

\* C13: after gain_xp(amount), 0 <= xp < xp_needed and
\* xp_needed = 100 + (level - 1) * 50; the level rises by every threshold
\* crossed, and the XP the level-ups consumed plus the xp left equals the xp
\* before plus the amount.
C13_GainXpLoops ==
    [][(engine = "objects" /\ decision'.action = "gain_xp" /\ turn' = turn + 1) =>
          LET before == daemons[decision'.i]
              after == daemons'[decision'.i]
          IN  /\ 0 <= after.xp /\ after.xp < after.xp_needed
              /\ after.xp_needed = 100 + (after.level - 1) * 50
              /\ after.level >= before.level
              /\ before.xp + decision'.k
                   = after.xp + XpConsumed(before.level, after.level)]_vars

C13_Witness ==
    /\ engine = "objects" /\ decision.action = "gain_xp" /\ decision.k = 700
    /\ daemons[decision.i].level = Starter.level + 2
    /\ daemons[decision.i].xp > 0

\* C14: XP awarded in several amounts gives the same level, xp, xp_needed and
\* derived stats as the sum awarded at once, and the same HP when a level-up
\* occurs: after an award k has been applied, a further award a leaves the
\* daemon where the single award k + a would have left it.
C14_XpSplitEqualsLump ==
    [][(engine = "objects" /\ decision'.action = "gain_xp" /\ turn' = turn + 1) =>
          \A a \in XpAmounts \cup {0} :
              LET split == gain_xp(daemons'[decision'.i], a)
                  lump == gain_xp(daemons[decision'.i], decision'.k + a)
              IN  /\ split.level = lump.level
                  /\ split.xp = lump.xp
                  /\ split.xp_needed = lump.xp_needed
                  /\ <<split.max_hp, split.attack, split.defense, split.speed, split.special>>
                       = <<lump.max_hp, lump.attack, lump.defense, lump.speed, lump.special>>
                  /\ lump.level > daemons[decision'.i].level => split.hp = lump.hp]_vars

C14_Witness ==
    /\ engine = "objects" /\ turn = 2
    /\ decision.action = "gain_xp" /\ decision.k = 700
    /\ daemons[decision.i].level = Starter.level + 2
    /\ daemons[decision.i].xp = Starter.xp_needed + 40

\* C15: a level-up leaves the combatant with hp equal to the recomputed
\* max_hp, whatever its HP was before.
C15_LevelUpHeals ==
    [][\A i \in DOMAIN daemons :
          (i \in DOMAIN daemons' /\ daemons'[i].level > daemons[i].level) =>
              daemons'[i].hp = daemons'[i].max_hp]_vars

C15_Witness ==
    /\ engine = "objects" /\ turn = 1
    /\ decision.action = "gain_xp" /\ decision.i = 1
    /\ Len(daemons) = 2
    /\ daemons[1].level = Starter.level + 2
    /\ daemons[1].hp = daemons[1].max_hp /\ daemons[1].hp > Starter.max_hp

\* C16: in every reachable state each combatant's max_hp, attack, defense,
\* speed and special equal floor(base_stat * (1 + (level - 1) * 0.1)) of its
\* base stats and level, evaluated as Daemon._calculate_stats evaluates it:
\* after construction, after a level-up and after loading from a save entry,
\* which gives a combatant.
C16_StatsDerivedFromBase ==
    /\ \A d \in Range(daemons) \cup {opponent} :
          /\ d.max_hp = StatAt(d.base_hp, d.level)
          /\ d.attack = StatAt(d.base_attack, d.level)
          /\ d.defense = StatAt(d.base_defense, d.level)
          /\ d.speed = StatAt(d.base_speed, d.level)
          /\ d.special = StatAt(d.base_special, d.level)
    /\ (engine = "objects" /\ decision.action = "from_dict") => "raised" \notin Events(out)

\* C17: every hit that is registered carries a damage of at least 1, and the
\* damage computation of use_program completes without raising, whatever the
\* attack and the defense are (a defense of 0 included).
C17_DamageAlwaysComputed ==
    /\ \A j \in DOMAIN out : out[j].ev = "dealt" => out[j].n >= 1
    /\ (engine = "objects" /\ decision.action = "use_program") =>
           "raised" \notin Events(out)

C19_FleeChance ==
    [][LET formula(own, opp) ==
               LET num == 9 * own.speed
                   den == 10 * Max(1, opp.speed)
               IN  IF 10 * num < den THEN [num |-> 1, den |-> 10]
                   ELSE IF num > den THEN [num |-> 1, den |-> 1]
                   ELSE [num |-> num, den |-> den]
           agrees(c, own, opp) ==
               /\ c.num * formula(own, opp).den = formula(own, opp).num * c.den
               /\ own.speed = opp.speed => 10 * c.num = 9 * c.den
           rolled == {"got_away", "could_not_escape"} \cap Events(out') # {}
       IN  /\ (engine = "Combat" /\ pc = "prompt" /\ decision'.action = "R" /\ rolled) =>
                 agrees(try_to_run_chance(daemons[player_daemon], opponent),
                        daemons[player_daemon], opponent)
           /\ (engine = "game" /\ combat_sub_state = "player_choose_action"
                  /\ decision'.action = "K4" /\ rolled) =>
                 agrees(flee_chance, daemons[get_active_daemon(daemons)], opponent)]_vars

-----------------------------------------------------------------------------
(* The capture chance as a function of the opponent: the wild daemon of        *)
(* tests/test_combat.py, test_capture_mechanics, with the capture rates the    *)
(* sources use (0 and 255 are the ends of the scale, 45 the rate of the base   *)
(* daemons, 100 the constructor's default), worn down from full HP.            *)

CaptureRates == {0, 45, 100, 255}

InitChance ==
    /\ engine = "capture_chance"
    /\ opponent \in { wild_daemon(cr, s) :
                        cr \in CaptureRates, s \in {"None", "LOCKED", "CORRUPTED"} }
    /\ daemons = <<Starter>>
    /\ player_daemon = 1 /\ is_wild = TRUE
    /\ turn = 0 /\ pc = "None" /\ outcome = "None"
    /\ combat_sub_state = "None" /\ game_state = "None"
    /\ selected_program = <<>> /\ error = "None"
    /\ decision = Dec("none", 0)
    /\ out = <<>>
    /\ sessions = <<>>

\* the opponent loses HP: Daemon.take_damage(amount)
ChanceTakeDamage ==
    /\ engine = "capture_chance" /\ opponent.hp > 0
    /\ \E amount \in 1..MaxHit :
          /\ opponent' = take_damage(opponent, amount)
          /\ decision' = Dec("take_damage", amount)
    /\ out' = <<>>
    /\ UNCHANGED <<engine, daemons, player_daemon, turn, is_wild, pc, outcome, sessions,
                   combat_sub_state, game_state, selected_program, error>>

\* a capture attempt rolled against the chance of Combat (k = 1) or of game.py
\* (k = 2)
ChanceAttempt ==
    /\ engine = "capture_chance"
    /\ \E k \in {1, 2}, r \in Randoms :
          LET chance == IF k = 1 THEN Combat_calculate_capture_chance(opponent)
                        ELSE calculate_capture_chance(opponent)
          IN  /\ out' = <<Ev(IF chance.raised # "None" THEN "raised"
                             ELSE IF Below(r, chance) THEN "captured"
                             ELSE "capture_failed", 0)>>
              /\ decision' = Dec("capture", k)
    /\ UNCHANGED <<engine, daemons, opponent, player_daemon, turn, is_wild, pc, outcome, sessions,
                   combat_sub_state, game_state, selected_program, error>>

NextChance == ChanceTakeDamage \/ ChanceAttempt

SpecChance == InitChance /\ [][NextChance]_vars

C21_RoundTrip ==
    (engine = "objects" /\ decision.action \in {"to_dict", "from_dict"}) =>
        /\ "raised" \notin Events(out)
        /\ LET d == daemons[decision.i]
               Saved(x) ==
                   <<x.name, x.types, x.level, x.hp, x.max_hp, x.attack, x.defense,
                     x.speed, x.xp, x.xp_next_level, x.status_effect, x.programs>>
           IN  /\ \A r \in {DictOf(d), EmptyDict} :
                     /\ from_dict(r).raised = "None"
                     /\ to_dict(from_dict(r).daemon[1]) = [raised |-> "None", data |-> <<r>>]
               /\ to_dict(d).raised = "None"
               /\ from_dict(to_dict(d).data[1]).raised = "None"
               /\ Saved(from_dict(to_dict(d).data[1]).daemon[1]) = Saved(d)

-----------------------------------------------------------------------------
(* Two encounters at once.  With engine = "Combat_sessions" they are two       *)
(* Combat objects, each holding its own attributes (sessions[j] is the record  *)
(* of object j).  With engine = "game_sessions" they are two callers of        *)
(* initialize_combat and of the key handler of game.py, whose encounter state  *)
(* is the module's globals game_state, combat_sub_state, enemy_daemon and      *)
(* combat_log: sessions[j].started tells whether caller j has begun its        *)
(* encounter, and out holds what the last step added to combat_log.            *)

SessionIds == {1, 2}

\* Combat(player_daemon, opponent_daemon) followed by start() up to its prompt
CombatObject(w) ==
    [daemons |-> <<Starter>>, opponent |-> w, player_daemon |-> 1, turn |-> 1,
     is_wild |-> TRUE, pc |-> "prompt", outcome |-> "None", sub |-> "None",
     game_state |-> "None", selected_program |-> <<>>, error |-> "None", out |-> <<>>]

InitSessions ==
    /\ engine \in {"Combat_sessions", "game_sessions"}
    /\ daemons = <<Starter>>
    /\ opponent = Wild("virulet", 1)
    /\ player_daemon = 0 /\ is_wild = TRUE /\ turn = 0
    /\ pc = "None" /\ outcome = "None"
    /\ combat_sub_state = "None"
    /\ game_state = IF engine = "game_sessions" THEN "roaming" ELSE "None"
    /\ selected_program = <<>> /\ error = "None"
    /\ decision = Dec("none", 0)
    /\ out = <<>>
    /\ IF engine = "Combat_sessions"
       THEN sessions \in [SessionIds -> {CombatObject(w) : w \in Wilds}]
       ELSE sessions = [j \in SessionIds |-> [started |-> FALSE]]

\* one line of input at the prompt of Combat object j
SessCombatInput ==
    /\ engine = "Combat_sessions"
    /\ \E j \in SessionIds :
          /\ sessions[j].pc = "prompt" /\ sessions[j].turn <= MaxTurn
          /\ \E a \in {"F", "C", "R", "X"}, roll \in Rolls, r \in Randoms :
                /\ sessions' = [sessions EXCEPT ![j] =
                       Combat_player_turn_returned(
                           Combat_player_turn(sessions[j], Dec(a, 1), roll, 85, r))]
                /\ decision' = DecOn(a, 1, j)
    /\ UNCHANGED <<engine, daemons, opponent, player_daemon, turn, is_wild, pc, outcome,
                   combat_sub_state, game_state, selected_program, error, out>>

\* the rest of the loop body of Combat object j
SessCombatRound ==
    /\ engine = "Combat_sessions"
    /\ \E j \in SessionIds :
          /\ sessions[j].pc = "after_player_turn"
          /\ \E roll \in Rolls :
                sessions' = [sessions EXCEPT ![j] =
                                Combat_after_player_turn(sessions[j], 1, roll, 85)]
          /\ decision' = DecOn("round", 0, j)
    /\ UNCHANGED <<engine, daemons, opponent, player_daemon, turn, is_wild, pc, outcome,
                   combat_sub_state, game_state, selected_program, error, out>>

\* initialize_combat(player, location) called by caller j
SessInitializeCombat ==
    /\ engine = "game_sessions" /\ error = "None"
    /\ \E j \in SessionIds :
          /\ ~sessions[j].started
          /\ sessions' = [sessions EXCEPT ![j].started = TRUE]
          /\ decision' = DecOn("initialize_combat", 0, j)
    /\ opponent' \in Wilds
    /\ game_state' = "combat"
    /\ combat_sub_state' = "player_choose_action"
    /\ out' = <<Ev("appeared", 0)>>
    /\ UNCHANGED <<engine, daemons, player_daemon, turn, is_wild, pc, outcome,
                   selected_program, error>>

\* a KEYDOWN event of caller j's encounter
SessKeyDown ==
    /\ engine = "game_sessions" /\ game_state = "combat" /\ error = "None"
    /\ \E j \in SessionIds :
          /\ sessions[j].started
          /\ \E key \in {"K1", "K4", "RETURN"}, roll \in Rolls, rd \in Randoms :
                /\ Install(on_keydown(Session, key,
                                      [roll |-> roll, rf |-> 85, ra |-> 999, rb |-> 999,
                                       rc |-> 999, rd |-> rd, ei |-> 1]))
                /\ decision' = DecOn(key, 0, j)

NextSessions ==
    SessCombatInput \/ SessCombatRound \/ SessInitializeCombat \/ SessKeyDown

SpecSessions == InitSessions /\ [][NextSessions]_vars

\* C22: a step of one session changes neither the phase, nor the opponent,
\* nor the event log of the other session.  For a Combat object these are its
\* pc, opponent_daemon and what it printed; for an encounter of game.py they
\* are combat_sub_state, enemy_daemon and combat_log (to which the step must
\* add nothing and which it must not clear).
C22_SessionsIndependent ==
    [][\A j \in SessionIds : \A o \in SessionIds \ {j} :
          decision'.i = j =>
              /\ engine = "Combat_sessions" =>
                    /\ sessions'[o].pc = sessions[o].pc
                    /\ sessions'[o].opponent = sessions[o].opponent
                    /\ sessions'[o].out = sessions[o].out
              /\ (engine = "game_sessions" /\ sessions[o].started) =>
                    /\ combat_sub_state' = combat_sub_state
                    /\ opponent' = opponent
                    /\ out' = <<>>
                    /\ decision'.action # "initialize_combat"]_vars

-----------------------------------------------------------------------------
(* The derived stats as a function of base stat and level: a daemon whose     *)
(* five base stats are b is constructed at level 1 and levelled up.           *)

InitStats ==
    /\ engine = "stats"
    /\ opponent \in { Daemon("Unknown", <<"NORMAL">>, 1, <<b, b, b, b, b>>, 100, <<>>) :
                        b \in 0..MaxBase }
    /\ daemons = <<Starter>>
    /\ player_daemon = 0 /\ is_wild = TRUE
    /\ turn = 0 /\ pc = "None" /\ outcome = "None"
    /\ combat_sub_state = "None" /\ game_state = "None"
    /\ selected_program = <<>> /\ error = "None"
    /\ decision = Dec("none", 0)
    /\ out = <<>>
    /\ sessions = <<>>

\* Daemon.level_up()
StatsLevelUp ==
    /\ engine = "stats" /\ opponent.level < MaxStatLevel
    /\ opponent' = level_up(opponent)
    /\ decision' = Dec("level_up", 0)
    /\ UNCHANGED <<engine, daemons, player_daemon, turn, is_wild, pc, outcome, sessions,
                   combat_sub_state, game_state, selected_program, error, out>>

NextStats == StatsLevelUp

SpecStats == InitStats /\ [][NextStats]_vars

\* C23: for a fixed base stat the derived stat never decreases when the level
\* rises: each of the five stats after a level-up is at least what it was.
C23_StatsMonotoneInLevel ==
    [][(engine = "stats" /\ opponent'.level > opponent.level) =>
          /\ opponent'.max_hp >= opponent.max_hp
          /\ opponent'.attack >= opponent.attack
          /\ opponent'.defense >= opponent.defense
          /\ opponent'.speed >= opponent.speed
          /\ opponent'.special >= opponent.special]_vars

\* base stat 45 has been levelled past level 5 (where the product in doubles
\* falls one short) and up to level 11
C23_Witness ==
    /\ engine = "stats" /\ opponent.base_hp = 45 /\ opponent.level = 11
    /\ opponent.max_hp = 90 /\ decision.action = "level_up"

\* C24: a Fight decision for a player combatant that knows no program raises
\* no error and executes no program, and it is resolved as the combatant's
\* action of the turn (a fallback that does nothing): the session goes on to
\* the opponent's action instead of asking again.
C24_FightWithoutPrograms ==
    [][LET none(o) == {"dealt", "used", "missed"} \cap Events(o) = {}
       IN  /\ (engine = "Combat" /\ pc = "prompt" /\ decision'.action = "F"
                  /\ Len(daemons[player_daemon].programs) = 0) =>
                 /\ error' = "None" /\ none(out')
                 /\ pc' = "after_player_turn"
           /\ (engine = "game" /\ combat_sub_state = "player_choose_program"
                  /\ decision'.action \in {"K1", "K2", "K3", "K4"}
                  /\ Len(daemons[get_active_daemon(daemons)].programs) = 0) =>
                 /\ error' = "None" /\ none(out') /\ selected_program' = <<>>
                 /\ combat_sub_state' \notin {"player_choose_action",
                                              "player_choose_program"}]_vars

\* C25: when the opponent knows no program its action does nothing: no
\* combatant's HP, status or anything else changes, no error is raised, the
\* session does not end because of it, and the turn goes on to its end-of-turn
\* processing (apply_status_effects in game.py; in Combat the faint check,
\* after which a player daemon still standing is prompted for the next turn).
C25_OpponentWithoutPrograms ==
    []["opponent_no_programs" \in Events(out') =>
          /\ daemons' = daemons /\ opponent' = opponent
          /\ error' = "None"
          /\ engine = "game" =>
                combat_sub_state' = "apply_status_effects" /\ game_state' = game_state
          /\ (engine = "Combat" /\ ~is_fainted(daemons[player_daemon])) =>
                pc' = "prompt" /\ turn' = turn + 1 /\ outcome' = "None"]_vars

C25_Witness ==
    /\ engine = "Combat" /\ pc = "prompt" /\ turn = 2
    /\ Len(opponent.programs) = 0
    /\ ~is_fainted(daemons[player_daemon])
    /\ "opponent_no_programs" \in Events(out)

-----------------------------------------------------------------------------
(* The phases of an encounter. *)

\* the phase Combat.start is in: it stands at the prompt of _player_turn, or
\* between the two actions of a turn, or it has left its loop
Combat_phase ==
    CASE pc = "constructed" -> "Start"
      [] pc = "prompt" -> "PlayerChoice"
      [] pc = "after_player_turn" -> "Resolution"
      [] pc = "returned" /\ outcome = "victory" -> "Victory"
      [] pc = "returned" /\ outcome = "defeat" -> "Defeat"
      [] pc = "returned" /\ outcome = "fled" -> "Fled"
      [] pc = "returned" /\ outcome = "captured" -> "Captured"
      [] OTHER -> "None"

\* the phase a value of game.combat_sub_state stands for; the branch
\* "apply_status_effects" is the end-of-turn step
game_phase ==
    CASE combat_sub_state = "combat_start" -> "Start"
      [] combat_sub_state \in {"player_choose_action", "player_choose_program"} -> "PlayerChoice"
      [] combat_sub_state \in {"player_action_execute", "enemy_turn",
                               "combat_capture_attempt"} -> "Resolution"
      [] combat_sub_state = "apply_status_effects" -> "EndCheck"
      [] combat_sub_state = "combat_victory" -> "Victory"
      [] combat_sub_state = "combat_defeat" -> "Defeat"
      [] combat_sub_state = "combat_fled" -> "Fled"
      [] OTHER -> "None"

Phase == IF engine = "Combat" THEN Combat_phase
         ELSE IF engine = "game" THEN game_phase ELSE "None"

\* C27: the phase changes only along Start -> PlayerChoice -> EnemyChoice ->
\* Resolution -> EndCheck -> an outcome; in particular Victory and Defeat are
\* entered only from EndCheck, that is by a step that started in the
\* end-of-turn status step of that turn.
C27_OutcomeOnlyFromEndCheck ==
    [][(Phase' \in {"Victory", "Defeat"} /\ Phase' # Phase) => Phase = "EndCheck"]_vars

\* C28: within a turn the faster combatant acts first.  A step that begins at
\* the player's choice begins a turn in which the opponent has not acted yet;
\* if the player's daemon acts in it, the opponent is not the faster of the
\* two (neither holds a status, so the effective speed is the speed).
C28_FasterActsFirst ==
    [][/\ (/\ engine = "Combat" /\ pc = "prompt"
           /\ {"dealt", "used", "missed"} \cap Events(out') # {}
           /\ daemons[player_daemon].status_effect = "None"
           /\ opponent.status_effect = "None")
          => daemons[player_daemon].speed >= opponent.speed
       /\ (/\ engine = "game" /\ combat_sub_state = "player_choose_program"
           /\ {"dealt", "used", "missed"} \cap Events(out') # {}
           /\ daemons[get_active_daemon(daemons)].status_effect = "None"
           /\ opponent.status_effect = "None")
          => daemons[get_active_daemon(daemons)].speed >= opponent.speed]_vars

\* C29: whenever the opponent's HP is below 30% of its max HP and it knows a
\* program, the program it selects has maximal power among those it knows.
C29_LowHpPicksStrongest ==
    [][\A k \in 1..Len(opponent.programs) :
          (/\ engine \in {"Combat", "game"}
           /\ Ev("opponent_program", k) \in Range(out')
           /\ opponent.hp * 10 < 3 * opponent.max_hp)
          => \A j \in 1..Len(opponent.programs) :
                opponent.programs[j].power <= opponent.programs[k].power]_vars

\* C30: at the end of every turn a CORRUPTED combatant loses
\* max(1, floor(max_hp / 16)) HP, floored at 0, the player's daemon and the
\* opponent alike, and a combatant without a damage-over-time status loses no
\* HP in the end-of-turn step.
C30_EndOfTurnStatusDamage ==
    [][(engine = "game" /\ combat_sub_state = "apply_status_effects" /\ error' = "None") =>
          LET a == get_active_daemon(daemons)
              after(d) == Max(0, d.hp - Max(1, d.max_hp \div 16))
          IN  /\ daemons[a].status_effect = "CORRUPTED" => daemons'[a].hp = after(daemons[a])
              /\ opponent.status_effect = "CORRUPTED" => opponent'.hp = after(opponent)
              /\ daemons[a].status_effect \notin {"CORRUPTED", "burn"} =>
                    daemons'[a].hp = daemons[a].hp
              /\ opponent.status_effect \notin {"CORRUPTED", "burn"} =>
                    opponent'.hp = opponent.hp]_vars

C32_MissChangesNothing ==
    [][/\ "missed" \in Events(out') =>
             /\ daemons' = daemons /\ opponent' = opponent
             /\ out' = <<Ev("missed", 0)>>
       /\ "opponent_missed" \in Events(out') =>
             /\ daemons' = daemons /\ opponent' = opponent
             /\ Events(out') \cap {"opponent_used", "took", "status", "dealt", "used",
                                   "super_effective", "not_very_effective"} = {}]_vars

\* a miss of the player's program in game.py against an enemy that an earlier
\* hit has damaged
C32_Witness ==
    /\ engine = "game" /\ error = "None"
    /\ out = <<Ev("missed", 0)>> /\ combat_sub_state = "enemy_turn"
    /\ opponent.hp < opponent.max_hp

\* C33: after every accepted Switch the active daemon of the session is a
\* non-fainted member of the roster other than the one active before, every
\* daemon (the previous one included) and the opponent are as they were, the
\* player does nothing else in that turn, and the opponent's part of the turn
\* is still to come.
C33_SwitchSafe ==
    [][(engine = "Combat" /\ "switched" \in Events(out')) =>
          /\ player_daemon' \in 1..Len(daemons)
          /\ player_daemon' # player_daemon
          /\ ~is_fainted(daemons[player_daemon'])
          /\ daemons' = daemons /\ opponent' = opponent
          /\ out' = <<Ev("switched", player_daemon')>>
          /\ pc' = "after_player_turn" /\ turn' = turn /\ outcome' = "None"]_vars

\* a switch from the weakened starter to the reserve daemon
C33_Witness ==
    /\ engine = "Combat" /\ pc = "after_player_turn"
    /\ out = <<Ev("switched", 2)>> /\ player_daemon = 2
    /\ daemons[1].hp = 1 /\ daemons[2].hp > 0

C35_GainXpBelowThreshold ==
    [][(engine = "objects" /\ decision'.action = "gain_xp") =>
          LET i == decision'.i
              amount == decision'.k
          IN  daemons[i].xp + amount < daemons[i].xp_needed =>
                 /\ daemons' = [daemons EXCEPT ![i].xp = daemons[i].xp + amount]
                 /\ opponent' = opponent]_vars

\* the starter at 1 HP has gained 20 XP and is still at level 5 with 1 HP
C35_Witness ==
    /\ engine = "objects" /\ decision.action = "gain_xp" /\ decision.k = 20
    /\ daemons[decision.i].xp = 20 /\ daemons[decision.i].level = 5
    /\ daemons[decision.i].hp = 1

-----------------------------------------------------------------------------
(* The roster of a Player on its own: set_active_daemon and get_active_daemon  *)
(* on rosters of up to MaxRoster daemons, healthy or fainted, in any order.    *)

\* the daemons a roster is made of
Pool == <<Starter, Reserve, TestCrypto, wild_daemon(100, "None")>>

InitRoster ==
    /\ engine = "roster"
    /\ \E n \in 0..MaxRoster :
       \E p \in [1..n -> 1..Len(Pool)] :
       \E fainted \in [1..n -> BOOLEAN] :
          /\ \A j, k \in 1..n : j # k => p[j] # p[k]
          /\ daemons = [k \in 1..n |->
                           IF fainted[k] THEN [Pool[p[k]] EXCEPT !.hp = 0] ELSE Pool[p[k]]]
    /\ opponent = DefaultDaemon        \* a daemon that is in no roster
    /\ player_daemon = 0 /\ is_wild = TRUE
    /\ turn = 0 /\ pc = "None" /\ outcome = "None"
    /\ combat_sub_state = "None" /\ game_state = "None"
    /\ selected_program = <<>> /\ error = "None"
    /\ decision = Dec("none", 0)
    /\ out = <<>>
    /\ sessions = <<>>

\* player.set_active_daemon(d) for a roster member (i > 0) or a stranger (i = 0)
RosterSetActive ==
    /\ engine = "roster" /\ turn < MaxOps
    /\ \E i \in 0..Len(daemons) :
          LET res == set_active_daemon(daemons, i)
          IN  /\ daemons' = res.daemons
              /\ out' = <<Ev("returned", IF res.ret THEN 1 ELSE 0)>>
              /\ decision' = DecOn("set_active_daemon", 0, i)
    /\ turn' = turn + 1
    /\ UNCHANGED <<engine, opponent, player_daemon, is_wild, pc, outcome, sessions,
                   combat_sub_state, game_state, selected_program, error>>

\* a roster member is knocked out between two calls
RosterFaint ==
    /\ engine = "roster" /\ turn < MaxOps
    /\ \E i \in 1..Len(daemons) :
          /\ ~is_fainted(daemons[i])
          /\ daemons' = [daemons EXCEPT ![i] = take_damage(@, @.hp)]
          /\ decision' = DecOn("take_damage", daemons[i].hp, i)
    /\ out' = <<>>
    /\ turn' = turn + 1
    /\ UNCHANGED <<engine, opponent, player_daemon, is_wild, pc, outcome, sessions,
                   combat_sub_state, game_state, selected_program, error>>

NextRoster == RosterSetActive \/ RosterFaint

SpecRoster == InitRoster /\ [][NextRoster]_vars

\* the members of a roster with their multiplicities
Members(ds) == [d \in Range(ds) |-> Cardinality({k \in 1..Len(ds) : ds[k] = d})]

\* C36: get_active_daemon returns the first non-fainted entry in roster
\* order, or None when every entry is fainted; after set_active_daemon(d) has
\* succeeded for a non-fainted member d, get_active_daemon returns d and the
\* roster holds exactly the members it held before.
C36_ActiveDaemon ==
    /\ [](engine = "roster" =>
            LET a == get_active_daemon(daemons)
            IN  IF \A k \in 1..Len(daemons) : daemons[k].hp <= 0 THEN a = 0
                ELSE /\ a \in 1..Len(daemons) /\ daemons[a].hp > 0
                     /\ \A k \in 1..(a - 1) : daemons[k].hp <= 0)
    /\ [][(/\ engine = "roster" /\ decision'.action = "set_active_daemon"
           /\ decision'.i > 0 /\ daemons[decision'.i].hp > 0)
          => /\ out' = <<Ev("returned", 1)>>
             /\ get_active_daemon(daemons') > 0
             /\ daemons'[get_active_daemon(daemons')] = daemons[decision'.i]
             /\ Members(daemons') = Members(daemons)
             /\ Len(daemons') = Len(daemons)]_vars

\* the third, healthy member of a roster whose first member is healthy too has
\* been made the active one
C36_Witness ==
    /\ engine = "roster" /\ decision = DecOn("set_active_daemon", 0, 3)
    /\ out = <<Ev("returned", 1)>>
    /\ Len(daemons) = 3 /\ daemons[1].hp > 0 /\ daemons[2].hp > 0
    /\ get_active_daemon(daemons) = 1

\* C37: set_active_daemon(d) returns False and leaves the roster, members and
\* order, unchanged whenever d is fainted or is not a member of the roster.
C37_SetActiveRejected ==
    [][(/\ engine = "roster" /\ decision'.action = "set_active_daemon"
        /\ \/ decision'.i = 0
           \/ is_fainted(daemons[decision'.i]))
       => /\ out' = <<Ev("returned", 0)>>
          /\ daemons' = daemons]_vars

\* a call for the fainted second member of a roster led by a healthy daemon
\* has returned False
C37_Witness ==
    /\ engine = "roster" /\ decision = DecOn("set_active_daemon", 0, 2)
    /\ out = <<Ev("returned", 0)>>
    /\ Len(daemons) >= 2 /\ daemons[1].hp > 0 /\ daemons[2].hp = 0

\* the encounter is over and acknowledged XP has been paid out: game.py waits
\* in "combat_end", Combat.start has returned
EndState ==
    \/ engine = "game" /\ combat_sub_state = "combat_end"
    \/ engine = "Combat" /\ pc = "returned"

-----------------------------------------------------------------------------
(* An encounter in which the player fights in every turn with a damage         *)
(* program.  The turn number of Combat.start is only printed; it is kept up to *)
(* MaxTurn here so that the loop can be followed for ever.                     *)

InitFight ==
    /\ engine \in {"Combat", "game"}
    /\ daemons \in { <<Starter>>, <<[Starter EXCEPT !.hp = 1], Reserve>> }
    /\ opponent \in Wilds
    /\ turn = 0 /\ outcome = "None"
    /\ selected_program = <<>> /\ error = "None"
    /\ decision = Dec("none", 0)
    /\ out = <<>>
    /\ sessions = <<>>
    /\ IF engine = "Combat"
       THEN /\ player_daemon = 1 /\ is_wild \in BOOLEAN /\ pc = "constructed"
            /\ combat_sub_state = "None" /\ game_state = "None"
       ELSE /\ player_daemon = 0 /\ is_wild = TRUE /\ pc = "None"
            /\ combat_sub_state = "player_choose_action" /\ game_state = "combat"

\* the programs of a daemon that deal damage, as indices
damage_programs(d) == { k \in 1..Len(d.programs) : d.programs[k].effect = "damage" }

\* Combat._player_turn answered with F and the number of a damage program
FightInput ==
    /\ engine = "Combat" /\ pc = "prompt"
    /\ \E k \in damage_programs(daemons[player_daemon]) :
       \E roll \in Rolls, variance \in Variances :
          /\ Install(Combat_player_turn_returned(
                        Combat_player_turn(Session, Dec("F", k), roll, variance, 0)))
          /\ decision' = Dec("F", k)

\* Combat.start: the rest of the loop body
FightRound ==
    /\ engine = "Combat" /\ pc = "after_player_turn"
    /\ \E oi \in 1..Max(1, Len(opponent.programs)) :
       \E roll \in Rolls, variance \in Variances :
          LET c == Combat_after_player_turn(Session, oi, roll, variance)
          IN  Install([c EXCEPT !.turn = IF @ > MaxTurn THEN MaxTurn ELSE @])
    /\ decision' = decision

\* main: the key events of a player who fights: 1 at the action menu, the
\* number of a damage program at the program menu, any key elsewhere
FightKey ==
    /\ engine = "game" /\ game_state = "combat" /\ error = "None"
    /\ combat_sub_state # "combat_end"
    /\ \E n \in Pin(1..4, combat_sub_state = "player_choose_program") :
       \E roll \in Pin(Rolls, combat_sub_state \in {"player_choose_program", "enemy_turn"}) :
       \E rf \in Pin(RandomFactors, combat_sub_state \in {"player_choose_program", "enemy_turn"}) :
       \E ra \in Pin(Randoms, combat_sub_state = "apply_status_effects") :
       \E rb \in Pin(Randoms, combat_sub_state = "apply_status_effects"
                                \/ (combat_sub_state = "enemy_turn"
                                    /\ opponent.status_effect \in {"stun", "slow"})) :
       \E rc \in Pin(Randoms, combat_sub_state = "enemy_turn") :
       \E ei \in Pin(1..Max(1, Len(opponent.programs)), combat_sub_state = "enemy_turn") :
          LET key == <<"K1", "K2", "K3", "K4">>[n]
              active == get_active_daemon(daemons)
          IN  /\ combat_sub_state = "player_choose_program" =>
                    (active # 0 /\ n \in damage_programs(daemons[active]))
              /\ Install(on_keydown(Session, key,
                                    [roll |-> roll, rf |-> rf, ra |-> ra, rb |-> rb,
                                     rc |-> rc, rd |-> 0, ei |-> ei]))
              /\ decision' = Dec(key, 0)

NextFight == CombatStart \/ FightInput \/ FightRound \/ FightKey

\* the last step was one in which the player's program hit
Hit == "dealt" \in Events(out)

\* Combat.start, once called, reaches its first prompt.  That the turns go on
\* after it is the premise of the property below, not an assumption here: the
\* player's answers and key presses are the player's to give.
SpecFight == InitFight /\ [][NextFight]_vars /\ WF_vars(CombatStart)

\* the encounter is over: a terminal phase, or an exception has ended the program
FightOver == TerminalPhase \/ error # "None"

-----------------------------------------------------------------------------
(* data_manager.py: validate_json_against_schema.  A JSON value is the Python  *)
(* object json.load gives: kind is its type ("object" for dict, "array" for    *)
(* list, "string" for str, "number" for int and float, "boolean" for bool),    *)
(* props the items of a dict in order, items the elements of a list.  A schema *)
(* has type "None" when it has no "type" key, required and properties empty    *)
(* when it has no such key, items <<>> when it has no "items" key.             *)

JsonScalar(kind) == [kind |-> kind, props |-> <<>>, items |-> <<>>]
JsonObject(props) == [kind |-> "object", props |-> props, items |-> <<>>]
JsonArray(items) == [kind |-> "array", props |-> <<>>, items |-> items]

JsonSchema(type, required, properties, items) ==
    [type |-> type, required |-> required, properties |-> properties, items |-> items]

\* isinstance(data, T) for the Python type T the schema type stands for; bool
\* is a subclass of int, so isinstance(True, (int, float)) is True
isinstance_of(data, expected_type) ==
    CASE expected_type = "object" -> data.kind = "object"
      [] expected_type = "array" -> data.kind = "array"
      [] expected_type = "string" -> data.kind = "string"
      [] expected_type = "number" -> data.kind \in {"number", "boolean"}
      [] expected_type = "boolean" -> data.kind = "boolean"
      [] OTHER -> TRUE          \* no "type" key, or a type no branch tests

\* prop in data
has_prop(data, prop) == \E k \in 1..Len(data.props) : data.props[k][1] = prop

\* data[prop]
get_prop(data, prop) ==
    data.props[CHOOSE k \in 1..Len(data.props) : data.props[k][1] = prop][2]

\* the least element of a non-empty set of indices: the first one a loop meets
First(S) == CHOOSE k \in S : \A j \in S : k <= j

\* validate_json_against_schema(data, schema, context): ok is is_valid, error
\* is <<>> for "" and otherwise <<what, context>>, context being the path
RECURSIVE validate_json_against_schema(_, _, _)
validate_json_against_schema(data, schema, context) ==
    LET missing == IF data.kind = "object"
                   THEN { k \in 1..Len(schema.required) : ~has_prop(data, schema.required[k]) }
                   ELSE {}
        sub(k) == validate_json_against_schema(get_prop(data, schema.properties[k][1]),
                                               schema.properties[k][2],
                                               context \o <<schema.properties[k][1]>>)
        badprops == IF data.kind = "object"
                    THEN { k \in 1..Len(schema.properties) :
                              has_prop(data, schema.properties[k][1]) /\ ~sub(k).ok }
                    ELSE {}
        item(j) == validate_json_against_schema(data.items[j], schema.items[1],
                                                context \o <<"item">>)
        baditems == IF data.kind = "array" /\ schema.items # <<>>
                    THEN { j \in 1..Len(data.items) : ~item(j).ok }
                    ELSE {}
    IN  IF ~isinstance_of(data, schema.type)
        THEN [ok |-> FALSE, error |-> <<"Expected", context>>]
        ELSE IF missing # {}
        THEN [ok |-> FALSE, error |-> <<"Required property is missing", context>>]
        ELSE IF badprops # {} THEN sub(First(badprops))
        ELSE IF baditems # {} THEN item(First(baditems))
        ELSE [ok |-> TRUE, error |-> <<>>]

\* the values and schemas the function is called with: scalars, objects with
\* the properties "name" and "value", arrays of up to MaxItems items, and the
\* schemas for them with the types the schemas of the repository use
ScalarData == { JsonScalar(k) : k \in {"string", "number", "boolean"} }

PropLists(V) ==
    {<<>>} \cup { <<<<"name", v>>>> : v \in V } \cup { <<<<"value", v>>>> : v \in V }
           \cup { <<<<"name", v>>, <<"value", w>>>> : v \in V, w \in V }

JsonData ==
    ScalarData
    \cup { JsonObject(p) : p \in PropLists(ScalarData) }
    \cup { JsonArray(s) :
              s \in UNION { [1..n -> ScalarData
                                     \cup {JsonObject(<<>>),
                                           JsonObject(<<<<"name", JsonScalar("string")>>>>)}]
                            : n \in 0..MaxItems } }

ScalarSchemas ==
    { JsonSchema(t, <<>>, <<>>, <<>>) : t \in {"string", "number", "boolean", "None"} }

ItemSchema ==
    JsonSchema("object", <<"name">>, <<<<"name", JsonSchema("string", <<>>, <<>>, <<>>)>>>>, <<>>)

JsonSchemas ==
    ScalarSchemas
    \cup { JsonSchema("object", r, p, <<>>) :
              r \in {<<>>, <<"name">>, <<"name", "value">>}, p \in PropLists(ScalarSchemas) }
    \cup { JsonSchema("array", <<>>, <<>>, i) :
              i \in {<<>>} \cup { <<sch>> : sch \in ScalarSchemas \cup {ItemSchema} } }

InitSchema ==
    /\ engine = "data_manager"
    /\ decision \in { [action |-> "validate_json_against_schema", data |-> d, schema |-> sch] :
                         d \in JsonData, sch \in JsonSchemas }
    /\ pc = "called"
    /\ out = <<>>
    /\ daemons = <<>> /\ opponent = DefaultDaemon
    /\ player_daemon = 0 /\ is_wild = TRUE
    /\ turn = 0 /\ outcome = "None"
    /\ combat_sub_state = "None" /\ game_state = "None"
    /\ selected_program = <<>> /\ error = "None"
    /\ sessions = <<>>

\* the call returns (is_valid, error_message)
SchemaValidate ==
    /\ engine = "data_manager" /\ pc = "called"
    /\ LET res == validate_json_against_schema(decision.data, decision.schema, <<>>)
       IN  out' = <<[ev |-> "returned", n |-> IF res.ok THEN 1 ELSE 0, error |-> res.error]>>
    /\ pc' = "returned"
    /\ UNCHANGED <<engine, daemons, opponent, player_daemon, turn, is_wild, outcome, sessions,
                   combat_sub_state, game_state, selected_program, error, decision>>

NextSchema == SchemaValidate

SpecSchema == InitSchema /\ [][NextSchema]_vars

\* data conforms to schema: it has the declared type, contains every required
\* property, and every declared property it has and every item conforms
RECURSIVE Conforms(_, _)
Conforms(data, schema) ==
    /\ schema.type # "None" => data.kind = schema.type
    /\ \A k \in 1..Len(schema.required) : has_prop(data, schema.required[k])
    /\ \A k \in 1..Len(schema.properties) :
          (data.kind = "object" /\ has_prop(data, schema.properties[k][1])) =>
             Conforms(get_prop(data, schema.properties[k][1]), schema.properties[k][2])
    /\ \A j \in 1..Len(data.items) :
          schema.items # <<>> => Conforms(data.items[j], schema.items[1])

\* C40: validate_json_against_schema returns (True, "") exactly when the data
\* has the schema's declared type, contains every required property, and
\* every declared property present and every array item validates
\* recursively; otherwise it returns (False, message) with a message naming a
\* missing required property or a type mismatch.
C40_ValidatesExactly ==
    (engine = "data_manager" /\ pc = "returned") =>
       IF Conforms(decision.data, decision.schema)
       THEN out[1].n = 1 /\ out[1].error = <<>>
       ELSE /\ out[1].n = 0
            /\ out[1].error # <<>>
            /\ out[1].error[1] \in {"Expected", "Required property is missing"}

====
